---- MODULE Spec2Model ----
(***************************************************************************)
(* Rate limiter of components/ratelimiter: the in-memory StateStore with   *)
(* its process-wide lock, and RateLimiterService (token bucket and leaky   *)
(* bucket) called by concurrent request threads.                           *)
(*                                                                         *)
(* Time is counted in clock ticks, TicksPerSec ticks to the second.  The   *)
(* floats of the code (tokens, level, remaining) are exact rationals here: *)
(* an amount of a policy is an integer number of units, Den(policy) units  *)
(* to one token, so that one tick of refill or drain is policy.rate units. *)
(* Rounding errors of the float arithmetic are not modelled there; the      *)
(* float section (TokenUpdFloat, LeakyUpdFloat, SpecFloat) computes the    *)
(* same functions in binary64 arithmetic, every operation rounded.         *)
(***************************************************************************)
EXTENDS Integers, Sequences, FiniteSets, TLC

\* ---------------------------------------------------------------- bounds
MaxClock == 4
MaxCalls == 2
MaxSeqCalls == 4
MaxPairCalls == 3
MaxRequests == 3
MaxCost == 3
TicksPerSec == 2

Threads == {"t1", "t2"}
Costs == 1..MaxCost

\* ------------------------------------------------------------- contracts
P1 == [name |-> <<"p1">>, algorithm |-> "token_bucket", rate |-> 2, period |-> 1, burst |-> 2]
P2 == [name |-> <<"p2">>, algorithm |-> "leaky_bucket", rate |-> 2, period |-> 1, burst |-> 2]
P3 == [name |-> <<"p3">>, algorithm |-> "token_bucket", rate |-> 3, period |-> 2, burst |-> 2]
P4 == [name |-> <<"p4">>, algorithm |-> "leaky_bucket", rate |-> 1, period |-> 2, burst |-> 2]

Policies == {P1, P2, P3, P4}

\* a policy that shares its name with P1 and differs in the algorithm
P5 == [name |-> <<"p1">>, algorithm |-> "leaky_bucket", rate |-> 2, period |-> 1, burst |-> 2]
\* a policy whose name contains the separator
P6 == [name |-> <<"p1", ":", "k">>, algorithm |-> "token_bucket", rate |-> 2, period |-> 1, burst |-> 2]
\* a policy object whose algorithm is none of the two the service knows
PBad == [name |-> <<"px">>, algorithm |-> "sliding_window", rate |-> 2, period |-> 1, burst |-> 2]
AllPolicies == Policies \cup {P5, PBad}
NamedPolicies == AllPolicies \cup {P6}

\* partition keys, as sequences of character groups ("global:*", "k")
GlobalKey == <<"global", ":", "*">>
Keys == {GlobalKey, <<"k">>}

None == [none |-> TRUE]
EmptyDict == << >>

\* Python truthiness of an Optional[dict]: None and {} are both falsy
Falsy(v) == v = None \/ v = EmptyDict

Max(a, b) == IF a >= b THEN a ELSE b
Min(a, b) == IF a <= b THEN a ELSE b

\* a number of seconds as the exact fraction num / den, num >= 0, den > 0
Whole(n) == [num |-> n, den |-> 1]

\* MathCeil that rounds down
MathFloor(x) == Whole(x.num \div x.den)

\* MathCeil that does not round
MathCeilNone(x) == x

\* math.ceil(x): the least whole number >= x
MathCeil(x) == Whole((x.num + x.den - 1) \div x.den)

\* units of one token of a policy: amounts are counted in 1/Den(policy) tokens
Den(policy) == TicksPerSec * policy.period

\* float(n) for a whole number n of tokens, in units
Float(policy, n) == n * Den(policy)

\* elapsed * (policy.rate / policy.period), elapsed in ticks, result in units
Accrued(policy, elapsed) == elapsed * policy.rate

\* amount / (policy.rate / policy.period) in seconds; amount in units
SecondsFor(policy, amount) == [num |-> amount, den |-> TicksPerSec * policy.rate]

\* _bucket_key that leaves the algorithm out of the storage key
_bucket_keyNoAlgorithm(key, policy) ==
    <<"ratelimiter", ":">> \o policy.name \o <<":">> \o key

\* ----------------------------------------------------------------- service
_bucket_key(key, policy) ==
    <<"ratelimiter", ":", policy.algorithm, ":">> \o policy.name \o <<":">> \o key

\* ---- contracts.Policy.matches and the middleware's pure helpers ----

\* str.upper(), letter by letter
UpperChar(c) ==
    CASE c = "g" -> "G" [] c = "e" -> "E" [] c = "t" -> "T"
      [] c = "p" -> "P" [] c = "o" -> "O" [] c = "s" -> "S"
      [] OTHER -> c
Upper(m) == [i \in DOMAIN m |-> UpperChar(m[i])]

\* an Optional value that is present
Some(x) == [v |-> x]

\* Python truthiness of an Optional list or string: None and the empty one are falsy
FalsySeq(o) == IF o = None THEN TRUE ELSE Len(o.v) = 0

\* Policy.normalize_methods: None stays None, a list is upper-cased
normalize_methods(o) == IF o = None THEN o ELSE Some([i \in DOMAIN o.v |-> Upper(o.v[i])])

\* the regular expressions in use: an optional ^, a literal, an optional $
\* (r".*" is the empty literal with no anchor)
Pattern(start, lit, end) == [start |-> start, lit |-> lit, end |-> end]
PatAny == Pattern(FALSE, << >>, FALSE)
PatEcho == Pattern(TRUE, <<"/", "e", "c", "h", "o">>, TRUE)
PatEchoAnywhere == Pattern(FALSE, <<"/", "e", "c", "h", "o">>, FALSE)
PatHealthz == Pattern(TRUE, <<"/", "h", "e", "a", "l", "t", "h", "z">>, TRUE)
PatMetrics == Pattern(TRUE, <<"/", "m", "e", "t", "r", "i", "c", "s">>, TRUE)

\* re.search(pat, path) is not None
Search(pat, path) ==
    \E i \in 1..(Len(path) + 1) :
        LET j == i + Len(pat.lit) - 1
        IN /\ j <= Len(path)
           /\ pat.start => i = 1
           /\ pat.end => j = Len(path)
           /\ SubSeq(path, i, j) = pat.lit

Range(f) == {f[i] : i \in DOMAIN f}

\* Policy.matches
Matches(policy, method, path) ==
    IF ~FalsySeq(policy.methods) /\ Upper(method) \notin Range(policy.methods.v)
    THEN FALSE
    ELSE Search(policy.path_pattern, path)

\* the policies handed to the middleware
GET == <<"G", "E", "T">>
M1 == [name |-> <<"per_ip">>, algorithm |-> "token_bucket", rate |-> 2, period |-> 1,
       burst |-> 2, scope |-> "ip", path_pattern |-> PatEcho,
       methods |-> normalize_methods(Some(<<GET>>)), cost |-> 1]
M2 == [name |-> <<"all">>, algorithm |-> "leaky_bucket", rate |-> 2, period |-> 1,
       burst |-> 2, scope |-> "global", path_pattern |-> PatAny,
       methods |-> None, cost |-> 2]
M3 == [name |-> <<"open">>, algorithm |-> "token_bucket", rate |-> 2, period |-> 1,
       burst |-> 2, scope |-> "user", path_pattern |-> PatEcho,
       methods |-> normalize_methods(Some(<< >>)), cost |-> 1]
M4 == [name |-> <<"writes">>, algorithm |-> "leaky_bucket", rate |-> 1, period |-> 2,
       burst |-> 2, scope |-> "tenant", path_pattern |-> PatEchoAnywhere,
       methods |-> normalize_methods(Some(<<<<"p", "o", "s", "t">>>>)), cost |-> 1]
MwPolicies == {M1, M2, M3, M4}

\* one policy per scope, all for GET /echo
ScopePolicy(scope) ==
    [name |-> <<"by_", scope>>, algorithm |-> "token_bucket", rate |-> 2, period |-> 1,
     burst |-> 2, scope |-> scope, path_pattern |-> PatEcho, methods |-> None, cost |-> 1]
Scopes == {"ip", "user", "tenant", "global", "custom"}
ScopePolicies == {ScopePolicy(sc) : sc \in Scopes}

\* the requests sent: method, path, client address, user and tenant headers
Request(method, path) ==
    [method |-> method, path |-> path, client |-> Some(<<"c1">>), user |-> None, tenant |-> None]
R1 == Request(GET, <<"/", "e", "c", "h", "o">>)
R2 == Request(<<"g", "e", "t">>, <<"/", "e", "c", "h", "o">>)
R3 == Request(<<"P", "O", "S", "T">>, <<"/", "e", "c", "h", "o">>)
R4 == Request(GET, <<"/", "o", "t", "h", "e", "r">>)
R5 == Request(GET, <<"/", "h", "e", "a", "l", "t", "h", "z">>)
R6 == Request(<<"P", "O", "S", "T">>, <<"/", "m", "e", "t", "r", "i", "c", "s">>)
R7 == Request(<<"P", "O", "S", "T">>, <<"/", "v", "1", "/", "e", "c", "h", "o">>)

\* GET /echo from a client address (or none) with user and tenant headers (or none)
RequestFrom(client, user, tenant) ==
    [method |-> GET, path |-> <<"/", "e", "c", "h", "o">>, client |-> client, user |-> user,
     tenant |-> tenant]
Q1 == RequestFrom(Some(<<"c1">>), Some(<<"u1">>), None)
Q2 == RequestFrom(Some(<<"c2">>), Some(<<"u1">>), Some(<<"t1">>))
Q3 == RequestFrom(None, None, None)
Q4 == RequestFrom(Some(<<"c1">>), Some(<<"anonymous">>), Some(<<"default">>))
Requests == {R1, R2, R3, R4, R5, R6, R7, Q1, Q2, Q3, Q4}

\* RateLimiterMiddleware._select_policy over the policies from index i on: the
\* index of the first policy that matches, 0 for None
RECURSIVE SelectFrom(_, _, _, _)
SelectFrom(policies, i, method, path) ==
    IF i > Len(policies) THEN 0
    ELSE IF Matches(policies[i], method, path) THEN i
    ELSE SelectFrom(policies, i + 1, method, path)

\* _select_policy that keeps the last policy that matches
_select_policyLast(policies, method, path) ==
    LET hits == {i \in 1..Len(policies) : Matches(policies[i], method, path)}
    IN IF hits = {} THEN 0 ELSE CHOOSE i \in hits : \A h \in hits : h <= i

\* RateLimiterMiddleware._select_policy
_select_policy(policies, method, path) == SelectFrom(policies, 1, method, path)

\* _build_key that derives every key from the client address
_build_keyByAddress(request, policy) ==
    <<"ip", ":">> \o (IF request.client = None THEN <<"unknown">> ELSE request.client.v)

\* RateLimiterMiddleware._build_key
_build_key(request, policy) ==
    CASE policy.scope = "ip" ->
           <<"ip", ":">> \o (IF request.client = None THEN <<"unknown">> ELSE request.client.v)
      [] policy.scope = "user" ->
           <<"user", ":">> \o (IF request.user = None THEN <<"anonymous">> ELSE request.user.v)
      [] policy.scope = "tenant" ->
           <<"tenant", ":">> \o (IF request.tenant = None THEN <<"default">> ELSE request.tenant.v)
      [] policy.scope = "global" -> <<"global", ":", "*">>
      [] policy.scope = "custom" ->
           <<"custom", ":">> \o (IF request.client = None THEN <<"unknown">> ELSE request.client.v)
      [] OTHER -> <<"unknown">>

\* decimal digits of a natural number: str(n)
Digits == <<"0", "1", "2", "3", "4", "5", "6", "7", "8", "9">>
RECURSIVE Str(_)
Str(n) == IF n < 10 THEN <<Digits[n + 1]>> ELSE Str(n \div 10) \o <<Digits[(n % 10) + 1]>>

\* IntTokens that rounds up
IntTokensCeil(policy, amount) == (amount + Den(policy) - 1) \div Den(policy)

\* int(x) of a non-negative amount of a policy, in tokens
IntTokens(policy, amount) == amount \div Den(policy)

\* int(result.retry_after or dflt): retry_after is None or a whole number of seconds
IntRetryAfterOr(retry_after, dflt) ==
    IF retry_after = None \/ retry_after.num = 0 THEN dflt ELSE retry_after.num \div retry_after.den


\* the lookup-only policy GET /quota/{key} builds from its query parameters
DummyPolicy(name, algorithm) ==
    [name |-> name, algorithm |-> algorithm, rate |-> 1, period |-> 1, burst |-> 1,
     scope |-> "global", path_pattern |-> PatAny, methods |-> None, cost |-> 1]

BucketKeys ==
    {_bucket_key(k, p) : k \in Keys, p \in AllPolicies}
        \cup {_bucket_key(_build_key(r, m), m) : r \in Requests, m \in MwPolicies \cup ScopePolicies}
        \cup {_bucket_key(k, DummyPolicy(p.name, a)) :
                 k \in Keys, p \in Policies, a \in {"token_bucket", "leaky_bucket"}}

\* TokenUpd with the refill not capped at policy.burst
TokenUpdNoCap(curr0, policy, cost, now) ==
    LET curr == IF Falsy(curr0)
                THEN [tokens |-> Float(policy, policy.burst), last_refill_ts |-> now]
                ELSE curr0
        last == curr.last_refill_ts
        elapsed == Max(0, now - last)
        tokens == curr.tokens + Accrued(policy, elapsed)
        allowed == tokens >= Float(policy, cost)
        left == IF allowed THEN tokens - Float(policy, cost) ELSE tokens
        retry_after == IF allowed THEN None
                       ELSE MathCeil(SecondsFor(policy, Float(policy, cost) - tokens))
    IN [new_state |-> [tokens |-> left, last_refill_ts |-> now],
        decision |-> [allowed |-> allowed, remaining |-> left, retry_after |-> retry_after]]

\* TokenUpd that allows only when tokens exceed the cost
TokenUpdStrict(curr0, policy, cost, now) ==
    LET curr == IF Falsy(curr0)
                THEN [tokens |-> Float(policy, policy.burst), last_refill_ts |-> now]
                ELSE curr0
        last == curr.last_refill_ts
        elapsed == Max(0, now - last)
        tokens == Min(Float(policy, policy.burst), curr.tokens + Accrued(policy, elapsed))
        allowed == tokens > Float(policy, cost)
        left == IF allowed THEN tokens - Float(policy, cost) ELSE tokens
        retry_after == IF allowed THEN None
                       ELSE MathCeil(SecondsFor(policy, Float(policy, cost) - tokens))
    IN [new_state |-> [tokens |-> left, last_refill_ts |-> now],
        decision |-> [allowed |-> allowed, remaining |-> left, retry_after |-> retry_after]]

\* TokenUpd with elapsed not clamped at zero
TokenUpdNoClamp(curr0, policy, cost, now) ==
    LET curr == IF Falsy(curr0)
                THEN [tokens |-> Float(policy, policy.burst), last_refill_ts |-> now]
                ELSE curr0
        last == curr.last_refill_ts
        elapsed == now - last
        tokens == Min(Float(policy, policy.burst), curr.tokens + Accrued(policy, elapsed))
        allowed == tokens >= Float(policy, cost)
        left == IF allowed THEN tokens - Float(policy, cost) ELSE tokens
        retry_after == IF allowed THEN None
                       ELSE MathCeil(SecondsFor(policy, Float(policy, cost) - tokens))
    IN [new_state |-> [tokens |-> left, last_refill_ts |-> now],
        decision |-> [allowed |-> allowed, remaining |-> left, retry_after |-> retry_after]]

\* TokenUpd that stores nothing new when it denies
TokenUpdDenyKeeps(curr0, policy, cost, now) ==
    LET curr == IF Falsy(curr0)
                THEN [tokens |-> Float(policy, policy.burst), last_refill_ts |-> now]
                ELSE curr0
        last == curr.last_refill_ts
        elapsed == Max(0, now - last)
        tokens == Min(Float(policy, policy.burst), curr.tokens + Accrued(policy, elapsed))
        allowed == tokens >= Float(policy, cost)
        left == IF allowed THEN tokens - Float(policy, cost) ELSE tokens
        retry_after == IF allowed THEN None
                       ELSE MathCeil(SecondsFor(policy, Float(policy, cost) - tokens))
    IN [new_state |-> IF allowed THEN [tokens |-> left, last_refill_ts |-> now] ELSE curr,
        decision |-> [allowed |-> allowed, remaining |-> left, retry_after |-> retry_after]]

\* RateLimiterService._consume_token_bucket.upd
TokenUpd(curr0, policy, cost, now) ==
    LET curr == IF Falsy(curr0)
                THEN [tokens |-> Float(policy, policy.burst), last_refill_ts |-> now]
                ELSE curr0
        last == curr.last_refill_ts
        elapsed == Max(0, now - last)
        tokens == Min(Float(policy, policy.burst), curr.tokens + Accrued(policy, elapsed))
        allowed == tokens >= Float(policy, cost)
        left == IF allowed THEN tokens - Float(policy, cost) ELSE tokens
        retry_after == IF allowed THEN None
                       ELSE MathCeil(SecondsFor(policy, Float(policy, cost) - tokens))
    IN [new_state |-> [tokens |-> left, last_refill_ts |-> now],
        decision |-> [allowed |-> allowed, remaining |-> left, retry_after |-> retry_after]]

\* LeakyUpd that does not drain by the elapsed time
LeakyUpdNoDrain(curr0, policy, cost, now) ==
    LET curr == IF Falsy(curr0)
                THEN [level |-> 0, last_refill_ts |-> now]
                ELSE curr0
        drained == curr.level
        allowed == (drained + Float(policy, cost)) <= Float(policy, policy.burst)
        level == IF allowed THEN drained + Float(policy, cost) ELSE drained
        target_level == Float(policy, policy.burst) - Float(policy, cost)
        retry_after == IF allowed THEN None
                       ELSE IF drained <= target_level THEN Whole(0)
                       ELSE MathCeil(SecondsFor(policy, drained - target_level))
    IN [new_state |-> [level |-> level, last_refill_ts |-> now],
        decision |-> [allowed |-> allowed,
                      remaining |-> Max(0, Float(policy, policy.burst) - level),
                      retry_after |-> retry_after]]

\* LeakyUpd that reports the headroom found before the request is added
LeakyUpdHeadroomBefore(curr0, policy, cost, now) ==
    LET curr == IF Falsy(curr0)
                THEN [level |-> 0, last_refill_ts |-> now]
                ELSE curr0
        last == curr.last_refill_ts
        elapsed == Max(0, now - last)
        drained == Max(0, curr.level - Accrued(policy, elapsed))
        allowed == (drained + Float(policy, cost)) <= Float(policy, policy.burst)
        level == IF allowed THEN drained + Float(policy, cost) ELSE drained
        target_level == Float(policy, policy.burst) - Float(policy, cost)
        retry_after == IF allowed THEN None
                       ELSE IF drained <= target_level THEN Whole(0)
                       ELSE MathCeil(SecondsFor(policy, drained - target_level))
    IN [new_state |-> [level |-> level, last_refill_ts |-> now],
        decision |-> [allowed |-> allowed,
                      remaining |-> Max(0, Float(policy, policy.burst) - drained),
                      retry_after |-> retry_after]]

\* LeakyUpd that admits a request only if room is left after it
LeakyUpdStrict(curr0, policy, cost, now) ==
    LET curr == IF Falsy(curr0)
                THEN [level |-> 0, last_refill_ts |-> now]
                ELSE curr0
        last == curr.last_refill_ts
        elapsed == Max(0, now - last)
        drained == Max(0, curr.level - Accrued(policy, elapsed))
        allowed == (drained + Float(policy, cost)) < Float(policy, policy.burst)
        level == IF allowed THEN drained + Float(policy, cost) ELSE drained
        target_level == Float(policy, policy.burst) - Float(policy, cost)
        retry_after == IF allowed THEN None
                       ELSE IF drained <= target_level THEN Whole(0)
                       ELSE MathCeil(SecondsFor(policy, drained - target_level))
    IN [new_state |-> [level |-> level, last_refill_ts |-> now],
        decision |-> [allowed |-> allowed,
                      remaining |-> Max(0, Float(policy, policy.burst) - level),
                      retry_after |-> retry_after]]

\* RateLimiterService._consume_leaky_bucket.upd
LeakyUpd(curr0, policy, cost, now) ==
    LET curr == IF Falsy(curr0)
                THEN [level |-> 0, last_refill_ts |-> now]
                ELSE curr0
        last == curr.last_refill_ts
        elapsed == Max(0, now - last)
        drained == Max(0, curr.level - Accrued(policy, elapsed))
        allowed == (drained + Float(policy, cost)) <= Float(policy, policy.burst)
        level == IF allowed THEN drained + Float(policy, cost) ELSE drained
        target_level == Float(policy, policy.burst) - Float(policy, cost)
        retry_after == IF allowed THEN None
                       ELSE IF drained <= target_level THEN Whole(0)
                       ELSE MathCeil(SecondsFor(policy, drained - target_level))
    IN [new_state |-> [level |-> level, last_refill_ts |-> now],
        decision |-> [allowed |-> allowed,
                      remaining |-> Max(0, Float(policy, policy.burst) - level),
                      retry_after |-> retry_after]]

\* the function handed to store.update by consume, by policy.algorithm
Upd(curr, policy, cost, now) ==
    IF policy.algorithm = "token_bucket"
    THEN TokenUpd(curr, policy, cost, now)
    ELSE LeakyUpd(curr, policy, cost, now)

\* RateLimiterService.snapshot: the projection of a stored state
Snapshot(state, key, policy) ==
    IF policy.algorithm = "token_bucket"
    THEN [key |-> key, algorithm |-> "token_bucket",
          tokens |-> IF ~Falsy(state) /\ "tokens" \in DOMAIN state THEN [v |-> state.tokens] ELSE None,
          last_refill_ts |-> IF ~Falsy(state) /\ "last_refill_ts" \in DOMAIN state
                             THEN [v |-> state.last_refill_ts] ELSE None]
    ELSE [key |-> key, algorithm |-> "leaky_bucket",
          level |-> IF ~Falsy(state) /\ "level" \in DOMAIN state THEN [v |-> state.level] ELSE None,
          last_refill_ts |-> IF ~Falsy(state) /\ "last_refill_ts" \in DOMAIN state
                             THEN [v |-> state.last_refill_ts] ELSE None]

\* Supported that lets every algorithm through
SupportedAny(algorithm) == TRUE

\* RateLimiterService.consume: the algorithms it dispatches on; any other one
\* raises ValueError
Supported(algorithm) == algorithm \in {"token_bucket", "leaky_bucket"}

\* upd raises KeyError when a stored, non-empty dict lacks a field it reads
UpdRaises(curr, policy) ==
    /\ ~Falsy(curr)
    /\ IF policy.algorithm = "token_bucket"
       THEN ~({"tokens", "last_refill_ts"} \subseteq DOMAIN curr)
       ELSE ~({"level", "last_refill_ts"} \subseteq DOMAIN curr)

\* ---- Python float: IEEE 754 binary64, every operation rounded to nearest, ties to even ----

\* An operator argument or a LET definition is evaluated wherever it is used, which
\* multiplies the work along a chain of calls. CHOOSE r \in {e : v \in {x}} : TRUE
\* is e with v standing for the value of x, and evaluates x once.

\* natural numbers of any size, for the 53-bit significands and their products:
\* limbs of LimbBits bits, least significant first, no leading zero limb
LimbBits == 15
LimbBase == 2 ^ LimbBits
\* bits of a binary64 significand
MantBits == 53

\* a without its leading zero limbs
BigTrim(a0) ==
    CHOOSE r \in
        {SubSeq(a, 1, CHOOSE k \in 0..Len(a) :
                          (k = 0 \/ a[k] /= 0) /\ \A j \in (k + 1)..Len(a) : a[j] = 0)
            : a \in {a0}} : TRUE

\* the natural number n, which is below LimbBase^3
Big(n0) ==
    CHOOSE r \in
        {BigTrim(<<n % LimbBase, (n \div LimbBase) % LimbBase, n \div (LimbBase * LimbBase)>>)
            : n \in {n0}} : TRUE

RECURSIVE BigToInt(_)
\* the value of a, which is small
BigToInt(a0) ==
    CHOOSE r \in
        {IF Len(a) = 0 THEN 0 ELSE a[1] + LimbBase * BigToInt(Tail(a)) : a \in {a0}} : TRUE

Limb(a, i) == IF i <= Len(a) THEN a[i] ELSE 0

RECURSIVE BigAddFrom(_, _, _, _)
BigAddFrom(a, b, i, carry) ==
    IF i > Len(a) /\ i > Len(b) THEN Big(carry)
    ELSE CHOOSE r \in
            {<<s % LimbBase>> \o BigAddFrom(a, b, i + 1, s \div LimbBase)
                : s \in {Limb(a, i) + Limb(b, i) + carry}} : TRUE

\* a + b
BigAdd(a0, b0) == CHOOSE r \in {BigAddFrom(a, b, 1, 0) : a \in {a0}, b \in {b0}} : TRUE

RECURSIVE BigSubFrom(_, _, _, _)
BigSubFrom(a, b, i, borrow) ==
    IF i > Len(a) THEN << >>
    ELSE CHOOSE r \in
            {IF d < 0 THEN <<d + LimbBase>> \o BigSubFrom(a, b, i + 1, 1)
                      ELSE <<d>> \o BigSubFrom(a, b, i + 1, 0)
                : d \in {a[i] - Limb(b, i) - borrow}} : TRUE

\* a - b, for a >= b
BigSub(a0, b0) ==
    CHOOSE r \in {BigTrim(BigSubFrom(a, b, 1, 0)) : a \in {a0}, b \in {b0}} : TRUE

RECURSIVE BigCmpFrom(_, _, _)
BigCmpFrom(a, b, i) ==
    IF i = 0 THEN 0
    ELSE IF a[i] < b[i] THEN -1
    ELSE IF a[i] > b[i] THEN 1
    ELSE BigCmpFrom(a, b, i - 1)

\* -1, 0 or 1 as a < b, a = b or a > b
BigCmp(a0, b0) ==
    CHOOSE r \in
        {IF Len(a) < Len(b) THEN -1
         ELSE IF Len(a) > Len(b) THEN 1
         ELSE BigCmpFrom(a, b, Len(a))
            : a \in {a0}, b \in {b0}} : TRUE

RECURSIVE BigMulSmallFrom(_, _, _, _)
BigMulSmallFrom(a, k, i, carry) ==
    IF i > Len(a) THEN Big(carry)
    ELSE CHOOSE r \in
            {<<s % LimbBase>> \o BigMulSmallFrom(a, k, i + 1, s \div LimbBase)
                : s \in {a[i] * k + carry}} : TRUE

\* a * k, for 0 <= k <= LimbBase
BigMulSmall(a0, k0) ==
    CHOOSE r \in
        {IF k = 0 THEN << >> ELSE BigMulSmallFrom(a, k, 1, 0) : a \in {a0}, k \in {k0}} : TRUE

\* a * LimbBase^n
BigShiftLimbs(a0, n) ==
    CHOOSE r \in {IF Len(a) = 0 THEN a ELSE [i \in 1..n |-> 0] \o a : a \in {a0}} : TRUE

RECURSIVE BigMulFrom(_, _, _)
BigMulFrom(a, b, i) ==
    IF i > Len(b) THEN << >>
    ELSE BigAdd(BigShiftLimbs(BigMulSmall(a, b[i]), i - 1), BigMulFrom(a, b, i + 1))

\* a * b
BigMul(a0, b0) == CHOOSE r \in {BigMulFrom(a, b, 1) : a \in {a0}, b \in {b0}} : TRUE

RECURSIVE BigDivSmallFrom(_, _, _, _)
BigDivSmallFrom(a, k, i, rem) ==
    IF i = 0 THEN << >>
    ELSE CHOOSE r \in
            {BigDivSmallFrom(a, k, i - 1, x % k) \o <<x \div k>>
                : x \in {rem * LimbBase + a[i]}} : TRUE

\* a div k, for 0 < k <= LimbBase
BigDivSmall(a0, k0) ==
    CHOOSE r \in
        {BigTrim(BigDivSmallFrom(a, k, Len(a), 0)) : a \in {a0}, k \in {k0}} : TRUE

\* a * 2^s
BigShl(a0, s0) ==
    CHOOSE r \in
        {BigShiftLimbs(BigMulSmall(a, 2 ^ (s % LimbBits)), s \div LimbBits)
            : a \in {a0}, s \in {s0}} : TRUE

\* a div 2^s
BigShr(a0, s0) ==
    CHOOSE r \in
        {IF s \div LimbBits >= Len(a) THEN << >>
         ELSE BigDivSmall(SubSeq(a, (s \div LimbBits) + 1, Len(a)), 2 ^ (s % LimbBits))
            : a \in {a0}, s \in {s0}} : TRUE

\* the number of bits of a
BitLen(a0) ==
    CHOOSE r \in
        {IF Len(a) = 0 THEN 0
         ELSE LimbBits * (Len(a) - 1)
                + (CHOOSE n \in 1..LimbBits : 2 ^ (n - 1) <= a[Len(a)] /\ a[Len(a)] < 2 ^ n)
            : a \in {a0}} : TRUE

RECURSIVE BigDivBits(_, _, _, _, _)
\* long division by b over the bits i..0 of the limb x: the quotient q and the
\* remainder r so far, each step bringing down one bit
BigDivBits(x, b, i, q, r) ==
    IF i < 0 THEN [q |-> q, r |-> r]
    ELSE CHOOSE s \in
            {IF BigCmp(r2, b) >= 0
             THEN BigDivBits(x, b, i - 1, BigAdd(q2, Big(1)), BigSub(r2, b))
             ELSE BigDivBits(x, b, i - 1, q2, r2)
                : r2 \in {BigAdd(BigMulSmall(r, 2), Big((x \div (2 ^ i)) % 2))},
                  q2 \in {BigMulSmall(q, 2)}} : TRUE

RECURSIVE BigDivLimbs(_, _, _, _)
\* long division of a by b over the limbs i..1 of a, qr the quotient and remainder so far
BigDivLimbs(a, b, i, qr) ==
    IF i = 0 THEN qr
    ELSE CHOOSE r \in
            {BigDivLimbs(a, b, i - 1, s)
                : s \in {BigDivBits(a[i], b, LimbBits - 1, qr.q, qr.r)}} : TRUE

\* quotient and remainder of a by b, b > 0
BigDivMod(a0, b0) ==
    CHOOSE r \in
        {BigDivLimbs(a, b, Len(a), [q |-> << >>, r |-> << >>]) : a \in {a0}, b \in {b0}} : TRUE

\* a float: (-1)^neg * m * 2^e with m odd, or zero
FZero == [neg |-> FALSE, m |-> << >>, e |-> 0]

\* the float of value (-1)^neg * m * 2^e, m of at most MantBits bits: the z zero
\* limbs and then the t zero bits at the low end of m go into the exponent
FCanon(neg, m0, e) ==
    CHOOSE r \in
        {IF Len(m) = 0 THEN FZero
         ELSE CHOOSE u \in
                {CHOOSE w \in
                    {[neg |-> neg, m |-> BigShr(SubSeq(m, z + 1, Len(m)), t),
                      e |-> e + LimbBits * z + t]
                        : t \in {i \in 0..(LimbBits - 1) :
                                    m[z + 1] % (2 ^ i) = 0 /\ m[z + 1] % (2 ^ (i + 1)) /= 0}}
                    : TRUE
                    : z \in {i \in 0..(Len(m) - 1) : m[i + 1] /= 0 /\ \A j \in 1..i : m[j] = 0}}
                : TRUE
            : m \in {m0}} : TRUE

\* the float nearest to (-1)^neg * m * 2^e, ties to the even significand: m loses
\* its s low bits, and c compares what is lost with half a unit of the last place
FRound(neg, m0, e) ==
    CHOOSE r \in
        {IF BitLen(m) <= MantBits THEN FCanon(neg, m, e)
         ELSE CHOOSE u \in
                {CHOOSE w \in
                    {FCanon(neg,
                            IF c > 0 \/ (c = 0 /\ q[1] % 2 = 1) THEN BigAdd(q, Big(1)) ELSE q,
                            e + s)
                        : c \in {BigCmp(BigSub(m, BigShl(q, s)), BigShl(Big(1), s - 1))}}
                    : TRUE
                    : s \in {BitLen(m) - MantBits}, q \in {BigShr(m, BitLen(m) - MantBits)}}
                : TRUE
            : m \in {m0}} : TRUE

\* float(n) for a natural number n
FInt(n) == FCanon(FALSE, Big(n), 0)

\* a + b
FAdd(a0, b0) ==
    CHOOSE r \in
        {IF Len(a.m) = 0 THEN (IF Len(b.m) = 0 THEN FZero ELSE b)
         ELSE IF Len(b.m) = 0 THEN a
         ELSE CHOOSE u \in
                {IF a.neg = b.neg THEN FRound(a.neg, BigAdd(x, y), Min(a.e, b.e))
                 ELSE IF BigCmp(x, y) >= 0 THEN FRound(a.neg, BigSub(x, y), Min(a.e, b.e))
                 ELSE FRound(b.neg, BigSub(y, x), Min(a.e, b.e))
                    : x \in {BigShl(a.m, a.e - Min(a.e, b.e))},
                      y \in {BigShl(b.m, b.e - Min(a.e, b.e))}} : TRUE
            : a \in {a0}, b \in {b0}} : TRUE

\* a - b
FSub(a, b0) == CHOOSE r \in {FAdd(a, [b EXCEPT !.neg = ~b.neg]) : b \in {b0}} : TRUE

\* a * b
FMul(a0, b0) ==
    CHOOSE r \in
        {FRound(a.neg /= b.neg, BigMul(a.m, b.m), a.e + b.e) : a \in {a0}, b \in {b0}} : TRUE

\* a / b, b not zero: the quotient to MantBits + 2 bits and a sticky bit, rounded
FDiv(a0, b0) ==
    CHOOSE r \in
        {IF Len(a.m) = 0 THEN FZero
         ELSE CHOOSE u \in
                {FRound(a.neg /= b.neg,
                        BigAdd(BigMulSmall(dm.q, 2), Big(IF Len(dm.r) = 0 THEN 0 ELSE 1)),
                        a.e - b.e - (MantBits + 2 + BitLen(b.m) - BitLen(a.m)) - 1)
                    : dm \in {BigDivMod(BigShl(a.m, MantBits + 2 + BitLen(b.m) - BitLen(a.m)),
                                        b.m)}} : TRUE
            : a \in {a0}, b \in {b0}} : TRUE

\* a < b, a <= b
FLt(a, b) == CHOOSE r \in {Len(d.m) > 0 /\ d.neg : d \in {FSub(a, b)}} : TRUE
FLe(a, b) == CHOOSE r \in {Len(d.m) = 0 \/ d.neg : d \in {FSub(a, b)}} : TRUE

\* max(a, b) and min(a, b) of Python: the first argument unless the second is larger (smaller)
FMax(a0, b0) == CHOOSE r \in {IF FLt(a, b) THEN b ELSE a : a \in {a0}, b \in {b0}} : TRUE
FMin(a0, b0) == CHOOSE r \in {IF FLt(b, a) THEN b ELSE a : a \in {a0}, b \in {b0}} : TRUE

\* math.ceil(a), an int
FCeil(a0) ==
    CHOOSE r \in
        {IF a.e >= 0 THEN (IF a.neg THEN -1 ELSE 1) * BigToInt(BigShl(a.m, a.e))
         ELSE IF a.neg THEN 0 - BigToInt(BigShr(a.m, 0 - a.e))
         ELSE BigToInt(BigShr(a.m, 0 - a.e)) + 1
            : a \in {a0}} : TRUE

\* the reading of the clock at a tick, as the float the service is handed
TimeFloat(ticks) == FDiv(FInt(ticks), FInt(TicksPerSec))

\* RateLimiterService._consume_token_bucket.upd in float arithmetic, operation by
\* operation; now, tokens and last_refill_ts are floats. The names of upd are bound
\* in the order upd assigns them: curr and rate_per_sec, elapsed, tokens, allowed,
\* and left for the tokens after the deduction.
TokenUpdFloat(curr0, policy, cost, now) ==
    CHOOSE r1 \in
     {CHOOSE r2 \in
       {CHOOSE r3 \in
         {CHOOSE r4 \in
           {CHOOSE r5 \in
             {[new_state |-> [tokens |-> left, last_refill_ts |-> now],
               decision |->
                 [allowed |-> allowed, remaining |-> left,
                  retry_after |->
                    IF allowed THEN None
                    ELSE Whole(FCeil(FDiv(FSub(FInt(cost), tokens), rate_per_sec)))]]
                : left \in {IF allowed THEN FSub(tokens, FInt(cost)) ELSE tokens}} : TRUE
              : allowed \in {FLe(FInt(cost), tokens)}} : TRUE
            : tokens \in {FMin(FInt(policy.burst),
                               FAdd(curr.tokens, FMul(elapsed, rate_per_sec)))}} : TRUE
          : elapsed \in {FMax(FZero, FSub(now, curr.last_refill_ts))}} : TRUE
        : curr \in {IF Falsy(curr0)
                    THEN [tokens |-> FInt(policy.burst), last_refill_ts |-> now]
                    ELSE curr0},
          rate_per_sec \in {FDiv(FInt(policy.rate), FInt(policy.period))}} : TRUE

\* RateLimiterService._consume_leaky_bucket.upd in float arithmetic, operation by
\* operation: curr and drain_per_sec, elapsed, drained, allowed, level
LeakyUpdFloat(curr0, policy, cost, now) ==
    CHOOSE r1 \in
     {CHOOSE r2 \in
       {CHOOSE r3 \in
         {CHOOSE r4 \in
           {CHOOSE r5 \in
             {[new_state |-> [level |-> level, last_refill_ts |-> now],
               decision |->
                 [allowed |-> allowed,
                  remaining |-> FMax(FZero, FSub(FInt(policy.burst), level)),
                  retry_after |->
                    IF allowed THEN None
                    ELSE IF FLe(drained, FSub(FInt(policy.burst), FInt(cost))) THEN Whole(0)
                    ELSE Whole(FCeil(FDiv(FSub(drained,
                                               FSub(FInt(policy.burst), FInt(cost))),
                                          drain_per_sec)))]]
                : level \in {IF allowed THEN FAdd(drained, FInt(cost)) ELSE drained}} : TRUE
              : allowed \in {FLe(FAdd(drained, FInt(cost)), FInt(policy.burst))}} : TRUE
            : drained \in {FMax(FZero, FSub(curr.level, FMul(elapsed, drain_per_sec)))}} : TRUE
          : elapsed \in {FMax(FZero, FSub(now, curr.last_refill_ts))}} : TRUE
        : curr \in {IF Falsy(curr0)
                    THEN [level |-> FZero, last_refill_ts |-> now]
                    ELSE curr0},
          drain_per_sec \in {FDiv(FInt(policy.rate), FInt(policy.period))}} : TRUE

\* the function handed to store.update by consume, in float arithmetic
UpdFloat(curr, policy, cost, now) ==
    IF policy.algorithm = "token_bucket"
    THEN TokenUpdFloat(curr, policy, cost, now)
    ELSE LeakyUpdFloat(curr, policy, cost, now)

\* ------------------------------------------------------------------- state
VARIABLES
    clock,      \* time.monotonic(), in ticks
    data,       \* InMemoryStore._data: bucket key -> dict, None where absent
    lock,       \* InMemoryStore._lock: the thread that holds it, or None
    pc,         \* per thread: position in the call it is running
    call,       \* per thread: the call's operation and arguments
    now,        \* per thread: the clock reading taken by consume
    current,    \* per thread: the value read by store.update
    decision,   \* per thread: the decision dict filled by upd
    result,     \* per thread: what the last call returned
    applied,    \* history: the store writes (update, set) in the order applied
    budget,     \* calls that may still be started
    env,        \* the callers: the threads that call, the (key, policy) pairs and costs they use,
                \* the requests they send
    mw,         \* RateLimiterMiddleware: policies and skip_paths
    req,        \* per handler thread: the request dispatch is working on, and how far it got
    served      \* history: the requests dispatch has answered, in order

vars == <<clock, data, lock, pc, call, now, current, decision, result, applied, budget, env,
          mw, req, served>>

NoCall == [op |-> "none"]

\* no request in the hands of dispatch
NoReq == [stage |-> "none"]

\* a service used without the middleware
NoMw == [policies |-> << >>, skip_paths |-> << >>]

\* InMemoryStore.__init__ and RateLimiterService.__init__, callers idle
InitState ==
    /\ clock = 0
    /\ data = [b \in BucketKeys |-> None]
    /\ lock = None
    /\ pc = [t \in Threads |-> "idle"]
    /\ call = [t \in Threads |-> NoCall]
    /\ now = [t \in Threads |-> 0]
    /\ current = [t \in Threads |-> None]
    /\ decision = [t \in Threads |-> EmptyDict]
    /\ result = [t \in Threads |-> None]
    /\ applied = << >>
    /\ req = [t \in Threads |-> NoReq]
    /\ served = << >>

Init ==
    /\ InitState
    /\ budget = MaxCalls
    /\ env \in [callers : {Threads}, targets : {{<<GlobalKey, p>>} : p \in Policies},
                costs : {{c} : c \in Costs}, requests : {{}}]
    /\ mw = NoMw

\* the monotonic clock advances
Tick ==
    /\ clock < MaxClock
    /\ clock' = clock + 1
    /\ UNCHANGED <<data, lock, pc, call, now, current, decision, result, applied, budget, env, mw, req, served>>

\* RateLimiterService.consume is entered; an unsupported algorithm raises at once
CallConsume(t, key, policy, cost) ==
    /\ pc[t] = "idle"
    /\ budget > 0
    /\ t \in env.callers /\ <<key, policy>> \in env.targets /\ cost \in env.costs
    /\ call' = [call EXCEPT ![t] = [op |-> "consume", key |-> key, policy |-> policy, cost |-> cost]]
    /\ pc' = [pc EXCEPT ![t] = IF Supported(policy.algorithm) THEN "now" ELSE "raise"]
    /\ decision' = [decision EXCEPT ![t] = EmptyDict]
    /\ budget' = budget - 1
    /\ UNCHANGED <<clock, data, lock, now, current, result, applied, env, mw, req, served>>

\* now = self._now(), before the store is entered
ReadNow(t) ==
    /\ pc[t] = "now"
    /\ now' = [now EXCEPT ![t] = clock]
    /\ pc' = [pc EXCEPT ![t] = "acquire"]
    /\ UNCHANGED <<clock, data, lock, call, current, decision, result, applied, budget, env, mw, req, served>>

\* RateLimiterService.reset is entered
CallReset(t, key, policy) ==
    /\ pc[t] = "idle"
    /\ budget > 0
    /\ t \in env.callers /\ <<key, policy>> \in env.targets
    /\ call' = [call EXCEPT ![t] = [op |-> "reset", key |-> key, policy |-> policy]]
    /\ pc' = [pc EXCEPT ![t] = "acquire"]
    /\ budget' = budget - 1
    /\ UNCHANGED <<clock, data, lock, now, current, decision, result, applied, env, mw, req, served>>

\* RateLimiterService.snapshot is entered
CallSnapshot(t, key, policy) ==
    /\ pc[t] = "idle"
    /\ budget > 0
    /\ t \in env.callers /\ <<key, policy>> \in env.targets
    /\ call' = [call EXCEPT ![t] = [op |-> "snapshot", key |-> key, policy |-> policy]]
    /\ pc' = [pc EXCEPT ![t] = "acquire"]
    /\ budget' = budget - 1
    /\ UNCHANGED <<clock, data, lock, now, current, decision, result, applied, env, mw, req, served>>

\* CanAcquire with a lock that excludes nobody
CanAcquireAlways(t) == TRUE

\* with self._lock: the RLock is free or already owned by the caller
CanAcquire(t) == lock = None \/ lock = [owner |-> t]

\* Acquire that does not wait for the holder of the lock
AcquireNoWait(t) ==
    /\ pc[t] = "acquire"
    /\ lock' = [owner |-> t]
    /\ pc' = [pc EXCEPT ![t] = "locked"]
    /\ UNCHANGED <<clock, data, call, now, current, decision, result, applied, budget, env, mw, req, served>>

\* with self._lock: entered once the lock can be acquired
Acquire(t) ==
    /\ pc[t] = "acquire"
    /\ CanAcquire(t)
    /\ lock' = [owner |-> t]
    /\ pc' = [pc EXCEPT ![t] = "locked"]
    /\ UNCHANGED <<clock, data, call, now, current, decision, result, applied, budget, env, mw, req, served>>

\* InMemoryStore.update: current = self._data.get(key)
UpdateRead(t) ==
    /\ pc[t] = "locked"
    /\ call[t].op = "consume"
    /\ current' = [current EXCEPT ![t] = data[_bucket_key(call[t].key, call[t].policy)]]
    /\ pc' = [pc EXCEPT ![t] = "fn"]
    /\ UNCHANGED <<clock, data, lock, call, now, decision, result, applied, budget, env, mw, req, served>>

\* InMemoryStore.update: new_value = fn(current); self._data[key] = new_value;
\* the lock is released on return, also when fn raises
UpdateWrite(t) ==
    /\ pc[t] = "fn"
    /\ LET c == call[t]
           b == _bucket_key(c.key, c.policy)
           u == Upd(current[t], c.policy, c.cost, now[t])
       IN IF UpdRaises(current[t], c.policy)
          THEN /\ UNCHANGED <<data, decision, applied>>
               /\ pc' = [pc EXCEPT ![t] = "raise"]
          ELSE /\ data' = [data EXCEPT ![b] = u.new_state]
               /\ decision' = [decision EXCEPT ![t] = u.decision]
               /\ applied' = Append(applied,
                      [op |-> "consume", bucket |-> b, key |-> c.key, policy |-> c.policy,
                       cost |-> c.cost, now |-> now[t],
                       pre |-> current[t], post |-> u.new_state, decision |-> u.decision])
               /\ pc' = [pc EXCEPT ![t] = "ret"]
    /\ lock' = None
    /\ UNCHANGED <<clock, call, now, current, result, budget, env, mw, req, served>>

\* StoreSet that stores a marker instead of the empty dict
StoreSetMarker(t) ==
    /\ pc[t] = "locked"
    /\ call[t].op = "reset"
    /\ LET c == call[t]
           b == _bucket_key(c.key, c.policy)
       IN /\ data' = [data EXCEPT ![b] = [cleared |-> TRUE]]
          /\ applied' = Append(applied,
                 [op |-> "reset", bucket |-> b, key |-> c.key, policy |-> c.policy,
                  post |-> [cleared |-> TRUE]])
    /\ lock' = None
    /\ pc' = [pc EXCEPT ![t] = "ret"]
    /\ UNCHANGED <<clock, call, now, current, decision, result, budget, env, mw, req, served>>

\* StoreSet that leaves the stored value in place
StoreSetKeep(t) ==
    /\ pc[t] = "locked"
    /\ call[t].op = "reset"
    /\ LET c == call[t]
           b == _bucket_key(c.key, c.policy)
       IN applied' = Append(applied,
                 [op |-> "reset", bucket |-> b, key |-> c.key, policy |-> c.policy,
                  post |-> EmptyDict])
    /\ lock' = None
    /\ pc' = [pc EXCEPT ![t] = "ret"]
    /\ UNCHANGED <<clock, data, call, now, current, decision, result, budget, env, mw, req, served>>

\* InMemoryStore.set, called by reset with {}
StoreSet(t) ==
    /\ pc[t] = "locked"
    /\ call[t].op = "reset"
    /\ LET c == call[t]
           b == _bucket_key(c.key, c.policy)
       IN /\ data' = [data EXCEPT ![b] = EmptyDict]
          /\ applied' = Append(applied,
                 [op |-> "reset", bucket |-> b, key |-> c.key, policy |-> c.policy,
                  post |-> EmptyDict])
    /\ lock' = None
    /\ pc' = [pc EXCEPT ![t] = "ret"]
    /\ UNCHANGED <<clock, call, now, current, decision, result, budget, env, mw, req, served>>

\* StoreGet that leaves an empty entry behind where it found none
StoreGetCreate(t) ==
    /\ pc[t] = "locked"
    /\ call[t].op = "snapshot"
    /\ LET b == _bucket_key(call[t].key, call[t].policy)
           v == IF data[b] = None THEN EmptyDict ELSE data[b]
       IN /\ data' = [data EXCEPT ![b] = v]
          /\ current' = [current EXCEPT ![t] = v]
    /\ lock' = None
    /\ pc' = [pc EXCEPT ![t] = "ret"]
    /\ UNCHANGED <<clock, call, now, decision, result, applied, budget, env, mw, req, served>>

\* StoreGet that brings the stored last_refill_ts up to the clock
StoreGetRefresh(t) ==
    /\ pc[t] = "locked"
    /\ call[t].op = "snapshot"
    /\ LET b == _bucket_key(call[t].key, call[t].policy)
           v == IF Falsy(data[b]) THEN data[b] ELSE [data[b] EXCEPT !.last_refill_ts = clock]
       IN /\ data' = [data EXCEPT ![b] = v]
          /\ current' = [current EXCEPT ![t] = v]
    /\ lock' = None
    /\ pc' = [pc EXCEPT ![t] = "ret"]
    /\ UNCHANGED <<clock, call, now, decision, result, applied, budget, env, mw, req, served>>

\* StoreGet that returns without releasing the lock
StoreGetKeepLock(t) ==
    /\ pc[t] = "locked"
    /\ call[t].op = "snapshot"
    /\ current' = [current EXCEPT ![t] = data[_bucket_key(call[t].key, call[t].policy)]]
    /\ pc' = [pc EXCEPT ![t] = "ret"]
    /\ UNCHANGED <<clock, data, lock, call, now, decision, result, applied, budget, env, mw, req, served>>

\* InMemoryStore.get, called by snapshot
StoreGet(t) ==
    /\ pc[t] = "locked"
    /\ call[t].op = "snapshot"
    /\ current' = [current EXCEPT ![t] = data[_bucket_key(call[t].key, call[t].policy)]]
    /\ lock' = None
    /\ pc' = [pc EXCEPT ![t] = "ret"]
    /\ UNCHANGED <<clock, data, call, now, decision, result, applied, budget, env, mw, req, served>>

\* the call ends: it returns ConsumeResult, QuotaSnapshot or None, or the
\* exception raised inside it reaches the caller
Return(t) ==
    /\ pc[t] \in {"ret", "raise"}
    /\ LET c == call[t]
       IN result' = [result EXCEPT ![t] =
            IF pc[t] = "raise"
            THEN [type |-> "Error",
                  error |-> IF Supported(c.policy.algorithm) THEN "KeyError" ELSE "ValueError"]
            ELSE IF c.op = "consume"
            THEN [type |-> "ConsumeResult", allowed |-> decision[t].allowed,
                  remaining |-> decision[t].remaining,
                  retry_after |-> decision[t].retry_after,
                  policy |-> c.policy.name, key |-> c.key]
            ELSE IF c.op = "snapshot"
            THEN [type |-> "QuotaSnapshot", snapshot |-> Snapshot(current[t], c.key, c.policy)]
            ELSE [type |-> "None"]]
    /\ pc' = [pc EXCEPT ![t] = "idle"]
    /\ call' = [call EXCEPT ![t] = NoCall]
    /\ now' = [now EXCEPT ![t] = 0]
    /\ current' = [current EXCEPT ![t] = None]
    /\ decision' = [decision EXCEPT ![t] = EmptyDict]
    /\ UNCHANGED <<clock, data, lock, applied, budget, env, mw, req, served>>

\* one caller issuing its calls one after the other, all consumes of one cost
InitSeq ==
    /\ InitState
    /\ budget = MaxSeqCalls
    /\ env \in [callers : {{"t1"}}, targets : {{<<GlobalKey, p>>} : p \in Policies},
                costs : {{c} : c \in Costs}, requests : {{}}]
    /\ mw = NoMw

Next ==
    \/ Tick
    \/ \E t \in Threads, k \in Keys, p \in AllPolicies, c \in Costs : CallConsume(t, k, p, c)
    \/ \E t \in Threads, k \in Keys, p \in AllPolicies : CallReset(t, k, p)
    \/ \E t \in Threads, k \in Keys, p \in AllPolicies : CallSnapshot(t, k, p)
    \/ \E t \in Threads : ReadNow(t)
    \/ \E t \in Threads : Acquire(t)
    \/ \E t \in Threads : UpdateRead(t)
    \/ \E t \in Threads : UpdateWrite(t)
    \/ \E t \in Threads : StoreSet(t)
    \/ \E t \in Threads : StoreGet(t)
    \/ \E t \in Threads : Return(t)

Spec == Init /\ [][Next]_vars

\* the same operations, called one after the other
SpecSeq == InitSeq /\ [][Next]_vars

\* one caller working with two policies on one partition key
InitPair ==
    /\ InitState
    /\ budget = MaxPairCalls
    /\ env \in [callers : {{"t1"}},
                targets : {{<<GlobalKey, P1>>, <<GlobalKey, P5>>},
                           {<<GlobalKey, P1>>, <<GlobalKey, P3>>},
                           {<<GlobalKey, P2>>, <<GlobalKey, P5>>}},
                costs : {{1}, {MaxCost}}, requests : {{}}]
    /\ mw = NoMw

SpecPair == InitPair /\ [][Next]_vars

\* one caller working with a supported and an unsupported policy on one key
InitErr ==
    /\ InitState
    /\ budget = MaxPairCalls
    /\ env \in [callers : {{"t1"}},
                targets : {{<<GlobalKey, P1>>, <<GlobalKey, PBad>>},
                           {<<GlobalKey, P2>>, <<GlobalKey, PBad>>}},
                costs : {{1}, {MaxCost}}, requests : {{}}]
    /\ mw = NoMw

SpecErr == InitErr /\ [][Next]_vars

\* two callers racing on one token bucket, every request of cost 2
InitRace ==
    /\ InitState
    /\ budget = MaxPairCalls
    /\ env \in [callers : {Threads}, targets : {{<<GlobalKey, P1>>}, {<<GlobalKey, P3>>}},
                costs : {{2}}, requests : {{}}]
    /\ mw = NoMw

SpecRace == InitRace /\ [][Next]_vars

\* ---- the /ratelimiter router ----

\* get_service: every request is given a RateLimiterService of its own, and with
\* it an InMemoryStore of its own
NewStore == [b \in BucketKeys |-> None]

\* POST /ratelimiter/consume: svc.consume(req.key, req.policy, req.cost) is entered
HttpConsume(t, key, policy, cost) ==
    /\ pc[t] = "idle"
    /\ budget > 0
    /\ t \in env.callers /\ <<key, policy>> \in env.targets /\ cost \in env.costs
    /\ data' = NewStore
    /\ lock' = None
    /\ call' = [call EXCEPT ![t] = [op |-> "consume", key |-> key, policy |-> policy, cost |-> cost]]
    /\ pc' = [pc EXCEPT ![t] = IF Supported(policy.algorithm) THEN "now" ELSE "raise"]
    /\ decision' = [decision EXCEPT ![t] = EmptyDict]
    /\ budget' = budget - 1
    /\ UNCHANGED <<clock, now, current, result, applied, env, mw, req, served>>

\* GET /ratelimiter/quota/{key}?algorithm=&name=: 400 for an algorithm it does not
\* know, else svc.snapshot(key, dummy) is entered
HttpQuota(t, key, algorithm, name) ==
    /\ pc[t] = "idle"
    /\ budget > 0
    /\ t \in env.callers
    /\ \E tg \in env.targets : tg[1] = key /\ tg[2].name = name
    /\ data' = NewStore
    /\ lock' = None
    /\ IF algorithm \notin {"token_bucket", "leaky_bucket"}
       THEN /\ result' = [result EXCEPT ![t] = [type |-> "HTTPException", status_code |-> 400]]
            /\ UNCHANGED <<call, pc>>
       ELSE /\ call' = [call EXCEPT ![t] = [op |-> "snapshot", key |-> key,
                                            policy |-> DummyPolicy(name, algorithm)]]
            /\ pc' = [pc EXCEPT ![t] = "acquire"]
            /\ UNCHANGED result
    /\ budget' = budget - 1
    /\ UNCHANGED <<clock, now, current, decision, applied, env, mw, req, served>>

\* POST /ratelimiter/reset: svc.reset(req.key, req.policy) is entered
HttpReset(t, key, policy) ==
    /\ pc[t] = "idle"
    /\ budget > 0
    /\ t \in env.callers /\ <<key, policy>> \in env.targets
    /\ data' = NewStore
    /\ lock' = None
    /\ call' = [call EXCEPT ![t] = [op |-> "reset", key |-> key, policy |-> policy]]
    /\ pc' = [pc EXCEPT ![t] = "acquire"]
    /\ budget' = budget - 1
    /\ UNCHANGED <<clock, now, current, decision, result, applied, env, mw, req, served>>

Algorithms == {"token_bucket", "leaky_bucket", "sliding_window"}

NextHttp ==
    \/ Tick
    \/ \E t \in Threads, k \in Keys, p \in Policies, c \in Costs : HttpConsume(t, k, p, c)
    \/ \E t \in Threads, k \in Keys, a \in Algorithms, p \in Policies : HttpQuota(t, k, a, p.name)
    \/ \E t \in Threads, k \in Keys, p \in Policies : HttpReset(t, k, p)
    \/ \E t \in Threads : ReadNow(t)
    \/ \E t \in Threads : Acquire(t)
    \/ \E t \in Threads : UpdateRead(t)
    \/ \E t \in Threads : UpdateWrite(t)
    \/ \E t \in Threads : StoreSet(t)
    \/ \E t \in Threads : StoreGet(t)
    \/ \E t \in Threads : Return(t)

\* the router mounted on an app, its requests handled one after the other
SpecHttp == InitSeq /\ [][NextHttp]_vars

\* ---- RateLimiterMiddleware ----

\* RateLimiterMiddleware.__init__: an absent or empty skip list becomes the default
DefaultSkipPaths == <<PatHealthz, PatMetrics>>
NewMiddleware(policies, skip_paths) ==
    [policies |-> policies,
     skip_paths |-> IF FalsySeq(skip_paths) THEN DefaultSkipPaths ELSE skip_paths.v]

Deployments ==
    {NewMiddleware(<<M1>>, Some(<<PatHealthz>>)),
     NewMiddleware(<<M1, M2>>, None),
     NewMiddleware(<<M4, M3>>, Some(<< >>))}

RequestMenus == {{R1}, {R1, R5}, {R2, R3}, {R1, R4}, {R3, R6}, {R7, R5}}

\* a service behind the middleware, one handler at a time
InitMw ==
    /\ InitState
    /\ budget = MaxRequests
    /\ mw \in Deployments
    /\ env \in [callers : {{"t1"}}, targets : {{}}, costs : {{}}, requests : RequestMenus]

\* a service behind a middleware with one policy, of any scope, and requests that
\* differ in client address and headers
InitKeys ==
    /\ InitState
    /\ budget = MaxRequests
    /\ mw \in {NewMiddleware(<<m>>, None) : m \in ScopePolicies}
    /\ env \in [callers : {{"t1"}}, targets : {{}}, costs : {{}},
                requests : {{Q1, Q2}, {Q3, Q4}, {Q2, Q4}, {Q1, R4}, {Q3, R5}}]

NoHeaders == [limit |-> None, remaining |-> None, reset |-> None, retry_after |-> None]

\* what call_next returns: the downstream handler's response
DownstreamResponse == [status |-> 200, body |-> None, headers |-> NoHeaders]

\* dispatch is entered: path and upper-cased method are read
MwArrive(t, r) ==
    /\ pc[t] = "idle"
    /\ req[t] = NoReq
    /\ budget > 0
    /\ t \in env.callers /\ r \in env.requests
    /\ req' = [req EXCEPT ![t] =
                 [stage |-> "ARRIVED", request |-> r, method |-> Upper(r.method),
                  policy |-> 0, key |-> None, consumes |-> 0, downstream |-> 0,
                  result |-> None, headers |-> NoHeaders, response |-> None]]
    /\ budget' = budget - 1
    /\ UNCHANGED <<clock, data, lock, pc, call, now, current, decision, result, applied, env,
                   mw, served>>

\* Skipped that lets every path through to the policies
SkippedNever(skip_paths, path) == FALSE

\* the loop over skip_paths: some pattern is found in the path
Skipped(skip_paths, path) == \E i \in DOMAIN skip_paths : Search(skip_paths[i], path)

\* a skipped path goes straight to the downstream handler
MwBypass(t) ==
    /\ req[t].stage = "ARRIVED"
    /\ Skipped(mw.skip_paths, req[t].request.path)
    /\ req' = [req EXCEPT ![t].stage = "FORWARDED", ![t].downstream = @ + 1,
                          ![t].response = DownstreamResponse]
    /\ UNCHANGED <<clock, data, lock, pc, call, now, current, decision, result, applied, budget,
                   env, mw, served>>

\* no policy matches: the request is allowed through
MwNoPolicy(t) ==
    /\ req[t].stage = "ARRIVED"
    /\ ~Skipped(mw.skip_paths, req[t].request.path)
    /\ _select_policy(mw.policies, req[t].method, req[t].request.path) = 0
    /\ req' = [req EXCEPT ![t].stage = "FORWARDED", ![t].downstream = @ + 1,
                          ![t].response = DownstreamResponse]
    /\ UNCHANGED <<clock, data, lock, pc, call, now, current, decision, result, applied, budget,
                   env, mw, served>>

\* policy = self._select_policy(method, path)
MwSelectPolicy(t) ==
    /\ req[t].stage = "ARRIVED"
    /\ ~Skipped(mw.skip_paths, req[t].request.path)
    /\ _select_policy(mw.policies, req[t].method, req[t].request.path) /= 0
    /\ req' = [req EXCEPT ![t].stage = "POLICY_SELECTED",
                 ![t].policy = _select_policy(mw.policies, req[t].method, req[t].request.path)]
    /\ UNCHANGED <<clock, data, lock, pc, call, now, current, decision, result, applied, budget,
                   env, mw, served>>

\* key = self._build_key(request, policy)
MwBuildKey(t) ==
    /\ req[t].stage = "POLICY_SELECTED"
    /\ req' = [req EXCEPT ![t].stage = "KEY_DERIVED",
                 ![t].key = Some(_build_key(req[t].request, mw.policies[req[t].policy]))]
    /\ UNCHANGED <<clock, data, lock, pc, call, now, current, decision, result, applied, budget,
                   env, mw, served>>

\* self.service.consume(key=key, policy=policy, cost=policy.cost) is entered
MwConsume(t) ==
    /\ req[t].stage = "KEY_DERIVED"
    /\ pc[t] = "idle"
    /\ LET policy == mw.policies[req[t].policy]
       IN call' = [call EXCEPT ![t] = [op |-> "consume", key |-> req[t].key.v,
                                       policy |-> policy, cost |-> policy.cost]]
    /\ pc' = [pc EXCEPT ![t] = "now"]
    /\ decision' = [decision EXCEPT ![t] = EmptyDict]
    /\ req' = [req EXCEPT ![t].stage = "CONSUMING", ![t].consumes = @ + 1]
    /\ UNCHANGED <<clock, data, lock, now, current, result, applied, budget, env, mw, served>>

\* consume has returned: the standard headers are set
MwDecided(t) ==
    /\ req[t].stage = "CONSUMING"
    /\ pc[t] = "idle"
    /\ LET policy == mw.policies[req[t].policy]
       IN req' = [req EXCEPT ![t].stage = "DECIDED", ![t].result = result[t],
                    ![t].headers =
                       [NoHeaders EXCEPT
                          !.limit = Some(Str(policy.rate) \o <<";", "w", "=">> \o Str(policy.period)
                                         \o <<";", "b", "u", "r", "s", "t", "=">>
                                         \o Str(policy.burst)),
                          !.remaining =
                             Some(Str(Max(0, IntTokens(policy, result[t].remaining))))]]
    /\ UNCHANGED <<clock, data, lock, pc, call, now, current, decision, result, applied, budget,
                   env, mw, served>>

\* allowed: call_next, then the headers are copied onto its response
MwForward(t) ==
    /\ req[t].stage = "DECIDED"
    /\ req[t].result.allowed
    /\ LET policy == mw.policies[req[t].policy]
       IN req' = [req EXCEPT ![t].stage = "FORWARDED", ![t].downstream = @ + 1,
                    ![t].response =
                       [DownstreamResponse EXCEPT
                          !.headers = [req[t].headers EXCEPT !.reset = Some(Str(policy.period))]]]
    /\ UNCHANGED <<clock, data, lock, pc, call, now, current, decision, result, applied, budget,
                   env, mw, served>>

\* MwReject that lets the downstream handler run before it answers 429
MwRejectCallsNext(t) ==
    /\ req[t].stage = "DECIDED"
    /\ ~req[t].result.allowed
    /\ LET policy == mw.policies[req[t].policy]
           ra == req[t].result.retry_after
       IN req' = [req EXCEPT ![t].stage = "REJECTED", ![t].downstream = @ + 1,
                    ![t].response =
                       [status |-> 429,
                        body |-> [error |-> "rate_limited", retry_after |-> IntRetryAfterOr(ra, 0)],
                        headers |-> [req[t].headers EXCEPT
                                       !.retry_after = Some(Str(IntRetryAfterOr(ra, 0))),
                                       !.reset = Some(Str(IntRetryAfterOr(ra, policy.period)))]]]
    /\ UNCHANGED <<clock, data, lock, pc, call, now, current, decision, result, applied, budget,
                   env, mw, served>>

\* MwReject that tries consume a second time before it gives up
MwRejectRetry(t) ==
    /\ req[t].stage = "DECIDED"
    /\ ~req[t].result.allowed
    /\ req' = [req EXCEPT ![t].stage = IF req[t].consumes < 2 THEN "KEY_DERIVED" ELSE "REJECTED",
                          ![t].response = [status |-> 429, body |-> None, headers |-> req[t].headers]]
    /\ UNCHANGED <<clock, data, lock, pc, call, now, current, decision, result, applied, budget,
                   env, mw, served>>

\* denied: the 429 JSONResponse
MwReject(t) ==
    /\ req[t].stage = "DECIDED"
    /\ ~req[t].result.allowed
    /\ LET policy == mw.policies[req[t].policy]
           ra == req[t].result.retry_after
       IN req' = [req EXCEPT ![t].stage = "REJECTED",
                    ![t].response =
                       [status |-> 429,
                        body |-> [error |-> "rate_limited", retry_after |-> IntRetryAfterOr(ra, 0)],
                        headers |-> [req[t].headers EXCEPT
                                       !.retry_after = Some(Str(IntRetryAfterOr(ra, 0))),
                                       !.reset = Some(Str(IntRetryAfterOr(ra, policy.period)))]]]
    /\ UNCHANGED <<clock, data, lock, pc, call, now, current, decision, result, applied, budget,
                   env, mw, served>>

\* dispatch returns its response
MwDone(t) ==
    /\ req[t].stage \in {"FORWARDED", "REJECTED"}
    /\ served' = Append(served, req[t])
    /\ req' = [req EXCEPT ![t] = NoReq]
    /\ result' = [result EXCEPT ![t] = None]
    /\ UNCHANGED <<clock, data, lock, pc, call, now, current, decision, applied, budget, env, mw>>

NextMw ==
    \/ Tick
    \/ \E t \in Threads, r \in Requests : MwArrive(t, r)
    \/ \E t \in Threads : MwBypass(t)
    \/ \E t \in Threads : MwNoPolicy(t)
    \/ \E t \in Threads : MwSelectPolicy(t)
    \/ \E t \in Threads : MwBuildKey(t)
    \/ \E t \in Threads : MwConsume(t)
    \/ \E t \in Threads : ReadNow(t)
    \/ \E t \in Threads : Acquire(t)
    \/ \E t \in Threads : UpdateRead(t)
    \/ \E t \in Threads : UpdateWrite(t)
    \/ \E t \in Threads : Return(t)
    \/ \E t \in Threads : MwDecided(t)
    \/ \E t \in Threads : MwForward(t)
    \/ \E t \in Threads : MwReject(t)
    \/ \E t \in Threads : MwDone(t)

SpecMw == InitMw /\ [][NextMw]_vars

SpecKeys == InitKeys /\ [][NextMw]_vars

\* the steps of dispatch and of the consume it calls: straight-line code, the lock
\* is free whenever the one handler asks for it, and call_next returns
MwStep(t) ==
    \/ MwBypass(t) \/ MwNoPolicy(t) \/ MwSelectPolicy(t) \/ MwBuildKey(t) \/ MwConsume(t)
    \/ ReadNow(t) \/ Acquire(t) \/ UpdateRead(t) \/ UpdateWrite(t) \/ Return(t)
    \/ MwDecided(t) \/ MwForward(t) \/ MwReject(t) \/ MwDone(t)

\* a handler that has started a request keeps running
FairSpecMw == SpecMw /\ \A t \in Threads : WF_vars(MwStep(t))

\* ------------------------------------------------------------ properties
\* the writes applied to bucket b, in the order applied
EntriesOf(b) == SelectSeq(applied, LAMBDA e : e.bucket = b)

\* the writes applied to bucket b since its last reset
SinceReset(b) ==
    LET L == EntriesOf(b)
        resets == {i \in 1..Len(L) : L[i].op = "reset"}
        from == IF resets = {} THEN 1 ELSE (CHOOSE i \in resets : \A j \in resets : j <= i) + 1
    IN SubSeq(L, from, Len(L))

\* the state the n-th write of L found in the store
Before(L, n) == IF n = 1 THEN None ELSE L[n - 1].post

\* units a consume took from the bucket
Deducted(e) == IF e.decision.allowed THEN Float(e.policy, e.cost) ELSE 0

\* units the elapsed time gave back (refill or drain) in a consume, from the state it read
Restored(e) ==
    IF Falsy(e.pre) THEN 0
    ELSE LET gain == Accrued(e.policy, Max(0, e.now - e.pre.last_refill_ts))
         IN IF e.policy.algorithm = "token_bucket"
            THEN Min(Float(e.policy, e.policy.burst), e.pre.tokens + gain) - e.pre.tokens
            ELSE e.pre.level - Max(0, e.pre.level - gain)

RECURSIVE SumDeducted(_, _)
\* the units taken by the first n writes of L
SumDeducted(L, n) == IF n = 0 THEN 0 ELSE Deducted(L[n]) + SumDeducted(L, n - 1)

RECURSIVE SumRestored(_, _)
\* the units restored by time in the first n writes of L
SumRestored(L, n) == IF n = 0 THEN 0 ELSE Restored(L[n]) + SumRestored(L, n - 1)

\* C1: every stored, non-empty bucket state has 0 <= tokens <= burst (token bucket)
\* and 0 <= level <= burst (leaky bucket), whatever consume, reset and snapshot
\* calls ran and however they interleaved.
C1_BucketBounds ==
    \A k \in Keys, p \in Policies :
        LET s == data[_bucket_key(k, p)]
        IN ~Falsy(s) =>
             IF p.algorithm = "token_bucket"
             THEN 0 <= s.tokens /\ s.tokens <= Float(p, p.burst)
             ELSE 0 <= s.level /\ s.level <= Float(p, p.burst)

\* C1 witness: a bucket that was refilled after being charged: time has passed since
\* the state it read, and the stored amount is at the bound
C1_Witness ==
    \E i \in 1..Len(applied) :
        LET e == applied[i]
        IN /\ e.op = "consume" /\ ~Falsy(e.pre)
           /\ e.now > e.pre.last_refill_ts
           /\ ~e.decision.allowed
           /\ data[e.bucket] = e.post
           /\ IF e.policy.algorithm = "token_bucket"
              THEN e.post.tokens = Float(e.policy, e.policy.burst)
              ELSE e.post.level = 0

RECURSIVE Replay(_, _)
\* the value left by the first n writes of L applied one after another to an absent key
Replay(L, n) ==
    IF n = 0 THEN None
    ELSE IF L[n].op = "reset" THEN EmptyDict
    ELSE Upd(Replay(L, n - 1), L[n].policy, L[n].cost, L[n].now).new_state

\* C2: store.update is indivisible: between its read of the current value and its
\* write, no other update or set changes the key, so the value it read is still the
\* stored one when it writes; hence the stored value is the one obtained by applying
\* the updates and sets one after another, in the order they were applied.
C2_UpdateIndivisible ==
    /\ \A t \in Threads :
         pc[t] = "fn" => data[_bucket_key(call[t].key, call[t].policy)] = current[t]
    /\ \A b \in BucketKeys : data[b] = Replay(EntriesOf(b), Len(EntriesOf(b)))

\* C2 witness: an update has read and not yet written while another call on the same
\* key waits for the lock
C2_Witness ==
    \E t, u \in Threads :
        /\ t /= u
        /\ pc[t] = "fn" /\ pc[u] = "acquire"
        /\ call[u].op \in {"consume", "reset"}
        /\ call[u].key = call[t].key /\ call[u].policy = call[t].policy

\* C3: no lost update: each applied consume read the state written by the write applied
\* just before it, the store holds the last write, and since the last reset the stored
\* amount is the initial amount plus what time restored minus exactly the costs of the
\* allowed calls.
C3_NoLostUpdate ==
    \A k \in Keys, p \in Policies :
        LET b == _bucket_key(k, p)
            L == EntriesOf(b)
            S == SinceReset(b)
        IN /\ \A i \in 1..Len(L) : L[i].op = "consume" => L[i].pre = Before(L, i)
           /\ data[b] = IF Len(L) = 0 THEN None ELSE L[Len(L)].post
           /\ Len(S) > 0 =>
                IF p.algorithm = "token_bucket"
                THEN data[b].tokens = Float(p, p.burst) + SumRestored(S, Len(S))
                                        - SumDeducted(S, Len(S))
                ELSE data[b].level = SumDeducted(S, Len(S)) - SumRestored(S, Len(S))

\* C3 witness: two consume calls on one bucket were in flight together and both were
\* applied and allowed
C3_Witness ==
    /\ \A t \in Threads : pc[t] = "ret" /\ call[t].op = "consume"
    /\ Len(applied) >= 2
    /\ \A i \in 1..Len(applied) : applied[i].op = "consume" /\ applied[i].decision.allowed
    /\ \A i, j \in 1..Len(applied) : applied[i].bucket = applied[j].bucket

\* the first n writes of L are consume calls of cost c
ConsumesOf(L, n, c) == \A i \in 1..n : L[i].op = "consume" /\ L[i].cost = c

\* the first n writes of L read the same clock value
SameNow(L, n) == \A i, j \in 1..n : L[i].now = L[j].now

\* C4 as stated: N consume(cost=1) calls against a fresh token bucket with burst = N
\* are all allowed, under every interleaving, and the last applied one leaves
\* remaining = 0.
C4_AllAllowedRemainingZero ==
    \A k \in Keys, p \in Policies :
        LET L == EntriesOf(_bucket_key(k, p))
        IN (p.algorithm = "token_bucket" /\ Len(L) = p.burst /\ ConsumesOf(L, Len(L), 1)) =>
             /\ \A i \in 1..Len(L) : L[i].decision.allowed
             /\ L[Len(L)].decision.remaining = 0

\* C4 amended: the N calls are all allowed under every interleaving; the last applied
\* one leaves remaining = 0 when all N calls read the same clock value.
C4_AllAllowed ==
    \A k \in Keys, p \in Policies :
        LET L == EntriesOf(_bucket_key(k, p))
        IN (p.algorithm = "token_bucket" /\ Len(L) <= p.burst /\ ConsumesOf(L, Len(L), 1)) =>
             /\ \A i \in 1..Len(L) : L[i].decision.allowed
             /\ (Len(L) = p.burst /\ SameNow(L, Len(L))) => L[Len(L)].decision.remaining = 0

\* C4 witness: burst calls of cost 1, in flight together, all applied at one clock value
C4_Witness ==
    \E k \in Keys, p \in Policies :
        LET L == EntriesOf(_bucket_key(k, p))
        IN /\ p.algorithm = "token_bucket" /\ Len(L) = p.burst /\ ConsumesOf(L, Len(L), 1)
           /\ SameNow(L, Len(L))
           /\ \A t \in Threads : pc[t] = "ret" /\ call[t].op = "consume"
           /\ L[Len(L)].decision.remaining = 0

RECURSIVE SerialNow(_, _)
\* the clock reading of the n-th write of L in a serial run in that order: a monotonic
\* clock never reads less than it read for an earlier call
SerialNow(L, n) ==
    IF n = 0 THEN 0
    ELSE IF L[n].op = "consume" THEN Max(L[n].now, SerialNow(L, n - 1))
    ELSE SerialNow(L, n - 1)

\* C5: consume is one atomic unit per key: the state each applied consume stored and
\* the decision it returned are those of the serial run of the same calls in the order
\* applied, each call reading the monotonic clock when it runs.
C5_SerialOutcome ==
    \A k \in Keys, p \in Policies :
        LET L == EntriesOf(_bucket_key(k, p))
        IN \A i \in 1..Len(L) :
             L[i].op = "consume" =>
               LET u == Upd(Before(L, i), p, L[i].cost, SerialNow(L, i))
               IN L[i].post = u.new_state /\ L[i].decision = u.decision

\* C6: after a consume denied with retry_after = t, the next write on the bucket being
\* a consume of the same cost issued t seconds later, that consume is allowed.
C6_AllowedAfterRetryAfter ==
    \A k \in Keys, p \in Policies :
        LET L == EntriesOf(_bucket_key(k, p))
        IN \A i \in 1..(Len(L) - 1) :
             (/\ L[i].op = "consume" /\ L[i + 1].op = "consume"
              /\ ~L[i].decision.allowed
              /\ L[i + 1].cost = L[i].cost
              /\ L[i + 1].now = L[i].now + L[i].decision.retry_after.num * TicksPerSec)
             => L[i + 1].decision.allowed

\* C7: after a token-bucket consume denied with retry_after = t, the next write on the
\* bucket being a consume of the same cost issued less than t seconds later, that
\* consume is denied too, and reports retry_after = 1 again when t = 1.
C7_DeniedBeforeRetryAfter ==
    \A k \in Keys, p \in Policies :
        LET L == EntriesOf(_bucket_key(k, p))
        IN \A i \in 1..(Len(L) - 1) :
             (/\ p.algorithm = "token_bucket"
              /\ L[i].op = "consume" /\ L[i + 1].op = "consume"
              /\ ~L[i].decision.allowed
              /\ L[i + 1].cost = L[i].cost
              /\ L[i + 1].now >= L[i].now
              /\ L[i + 1].now < L[i].now + L[i].decision.retry_after.num * TicksPerSec)
             => /\ ~L[i + 1].decision.allowed
                /\ L[i].decision.retry_after = Whole(1) => L[i + 1].decision.retry_after = Whole(1)

C9_LeakyDrain ==
    \A k \in Keys, p \in Policies :
        LET L == EntriesOf(_bucket_key(k, p))
        IN p.algorithm = "leaky_bucket" =>
             /\ \A n \in 1..Len(L) :
                  (ConsumesOf(L, n, 1) /\ SameNow(L, n)) =>
                    /\ L[n].decision.allowed <=> n <= p.burst
                    /\ ~L[n].decision.allowed =>
                         L[n].decision.retry_after /= None /\ L[n].decision.retry_after.num >= 0
             /\ \A n \in 1..(Len(L) - 1) :
                  (/\ ConsumesOf(L, n + 1, 1) /\ SameNow(L, n) /\ n > p.burst
                   /\ (L[n + 1].now - L[n].now) * p.rate >= p.burst * p.period * TicksPerSec)
                  => /\ L[n + 1].decision.allowed
                     /\ L[n + 1].post.level = Float(p, 1)

\* C9 witness: burst=2, rate=2, period=1: two allowed, the third denied, and the
\* fourth, 1.0 s later, allowed
C9_Witness ==
    \E k \in Keys :
        LET L == EntriesOf(_bucket_key(k, P2))
        IN /\ Len(L) = 4 /\ ConsumesOf(L, 4, 1) /\ SameNow(L, 3)
           /\ L[1].decision.allowed /\ L[2].decision.allowed /\ ~L[3].decision.allowed
           /\ L[4].now = L[3].now + TicksPerSec
           /\ L[4].decision.allowed

\* a number of seconds with no fractional part
IsWhole(x) == x.num % x.den = 0

\* C10: a ConsumeResult has retry_after = null when allowed and a non-null whole
\* number of seconds when denied.
C10_RetryAfterIffDenied ==
    \A t \in Threads :
        ("type" \in DOMAIN result[t] /\ result[t].type = "ConsumeResult") =>
          /\ result[t].allowed => result[t].retry_after = None
          /\ ~result[t].allowed =>
               /\ result[t].retry_after /= None
               /\ IsWhole(result[t].retry_after)
               /\ result[t].retry_after.num >= 0

\* C10 witness: one caller was returned an allowed result, the other a denied one
C10_Witness ==
    \E t, u \in Threads :
        /\ "type" \in DOMAIN result[t] /\ result[t].type = "ConsumeResult"
        /\ "type" \in DOMAIN result[u] /\ result[u].type = "ConsumeResult"
        /\ result[t].allowed /\ result[t].retry_after = None
        /\ ~result[u].allowed /\ result[u].retry_after.num >= 1

\* C11: the remaining of every ConsumeResult, allowed or denied, is >= 0 and is the
\* tokens that call stored (token bucket) or burst minus the level it stored (leaky
\* bucket).
C11_RemainingIsStored ==
    /\ \A i \in 1..Len(applied) :
         LET e == applied[i]
         IN e.op = "consume" =>
              /\ e.decision.remaining >= 0
              /\ IF e.policy.algorithm = "token_bucket"
                 THEN e.decision.remaining = e.post.tokens
                 ELSE e.decision.remaining = Float(e.policy, e.policy.burst) - e.post.level
    /\ \A t \in Threads :
         ("type" \in DOMAIN result[t] /\ result[t].type = "ConsumeResult") =>
           /\ result[t].remaining >= 0
           /\ \E i \in 1..Len(applied) :
                applied[i].op = "consume" /\ applied[i].decision.remaining = result[t].remaining

\* C11 witness: a leaky bucket on which one call was allowed with headroom left and
\* another denied
C11_Witness ==
    \E i, j \in 1..Len(applied) :
        /\ applied[i].op = "consume" /\ applied[j].op = "consume"
        /\ applied[i].policy.algorithm = "leaky_bucket"
        /\ applied[i].bucket = applied[j].bucket
        /\ applied[i].decision.allowed /\ applied[i].post.level > 0
        /\ ~applied[j].decision.allowed

\* C12: snapshot changes nothing in the store, whatever the clock reads, and a
\* snapshot that follows a snapshot of the same key and policy with no consume or
\* reset between them returns the same result.
C12_SnapshotReadOnly ==
    [][\A t \in Threads :
         (call[t].op = "snapshot" /\ pc[t] /= "idle") =>
           /\ data' = data
           /\ (/\ pc[t] = "ret" /\ pc'[t] = "idle"
               /\ "type" \in DOMAIN result[t] /\ result[t].type = "QuotaSnapshot"
               /\ result[t].snapshot.key = call[t].key
               /\ result[t].snapshot.algorithm = call[t].policy.algorithm)
              => result'[t] = result[t]]_vars

\* C12 witness: a second snapshot in a row is about to return, the clock having
\* advanced past the stored last_refill_ts
C12_Witness ==
    \E t \in Threads :
        /\ call[t].op = "snapshot" /\ pc[t] = "ret"
        /\ "type" \in DOMAIN result[t] /\ result[t].type = "QuotaSnapshot"
        /\ result[t].snapshot.last_refill_ts /= None
        /\ clock > result[t].snapshot.last_refill_ts.v

\* C13: a consume applied right after a reset stores the state and returns the
\* decision of the same consume, at the same time, on a key that was never used.
C13_ResetThenConsumeIsFresh ==
    \A k \in Keys, p \in Policies :
        LET L == EntriesOf(_bucket_key(k, p))
        IN \A i \in 2..Len(L) :
             (L[i - 1].op = "reset" /\ L[i].op = "consume") =>
               LET fresh == Upd(None, p, L[i].cost, L[i].now)
               IN L[i].post = fresh.new_state /\ L[i].decision = fresh.decision

\* C13 witness: a bucket that had been charged was reset and then consumed from
C13_Witness ==
    \E k \in Keys, p \in Policies :
        LET L == EntriesOf(_bucket_key(k, p))
        IN \E i \in 3..Len(L) :
             /\ L[i - 2].op = "consume" /\ L[i - 1].op = "reset" /\ L[i].op = "consume"
             /\ L[i - 2].post /= Upd(None, p, L[i].cost, L[i].now).new_state
             /\ L[i].decision.allowed

\* the operations applied for policy q on partition key k, in the order applied
EntriesFor(k, q) == SelectSeq(applied, LAMBDA e : e.key = k /\ e.policy = q)

\* C14: for one partition key, policies that differ in name or in algorithm get
\* different storage keys, so the bucket of a policy holds what the operations
\* on that policy left there and a consume reads only that.
C14_BucketsDisjoint ==
    /\ \A k \in Keys, p \in NamedPolicies, q \in NamedPolicies :
         (p.name /= q.name \/ p.algorithm /= q.algorithm) =>
            _bucket_key(k, p) /= _bucket_key(k, q)
    /\ \A tg \in env.targets :
         LET L == EntriesFor(tg[1], tg[2])
         IN /\ data[_bucket_key(tg[1], tg[2])] = IF Len(L) = 0 THEN None ELSE L[Len(L)].post
            /\ \A i \in 1..Len(L) : L[i].op = "consume" => L[i].pre = Before(L, i)

\* C14 witness: a consume on one policy was applied between two consumes on
\* another policy with the same partition key
C14_Witness ==
    \E i, j, n \in 1..Len(applied) :
        /\ i < j /\ j < n
        /\ applied[i].op = "consume" /\ applied[j].op = "consume" /\ applied[n].op = "consume"
        /\ applied[i].key = applied[j].key /\ applied[n].key = applied[j].key
        /\ applied[i].policy = applied[n].policy
        /\ applied[j].policy /= applied[i].policy
        /\ applied[j].policy.name = applied[i].policy.name
        /\ applied[n].pre = applied[i].post

\* the requests dispatch is working on or has answered
InHand == {t \in Threads : req[t].stage /= "none"}
Handled == {served[i] : i \in 1..Len(served)} \cup {req[t] : t \in InHand}

\* the policy a request selected
PolicyOf(r) == mw.policies[r.policy]

\* C15: dispatch selects the lowest-index policy whose matches(method, path) is
\* true and consumes from that policy's bucket only, once; a request that no
\* policy matches is forwarded with no consume and the store unchanged.
C15_FirstMatchOnly ==
    [][\A t \in InHand :
         LET r == req[t]
             hits == {i \in 1..Len(mw.policies) :
                         Matches(mw.policies[i], r.request.method, r.request.path)}
         IN /\ (r.stage = "ARRIVED" /\ req'[t].stage = "POLICY_SELECTED") =>
                  /\ req'[t].policy \in hits
                  /\ \A i \in hits : req'[t].policy <= i
            /\ data' /= data =>
                  /\ r.stage = "CONSUMING" /\ r.consumes = 1 /\ r.policy /= 0
                  /\ \A b \in BucketKeys :
                       data'[b] /= data[b] =>
                          b = _bucket_key(_build_key(r.request, PolicyOf(r)), PolicyOf(r))
            /\ (hits = {} /\ req'[t] /= r) =>
                  /\ req'[t] = NoReq \/ req'[t].stage = "FORWARDED"
                  /\ data' = data /\ pc'[t] = "idle" /\ r.consumes = 0]_vars

\* C15 witness: two policies match a request that was answered; the first one's
\* bucket was charged and the second one's bucket is still absent
C15_Witness ==
    \E i \in 1..Len(served) :
        LET r == served[i]
        IN /\ Len(mw.policies) = 2
           /\ Matches(mw.policies[1], r.request.method, r.request.path)
           /\ Matches(mw.policies[2], r.request.method, r.request.path)
           /\ r.policy = 1 /\ r.consumes = 1
           /\ data[_bucket_key(_build_key(r.request, mw.policies[1]), mw.policies[1])] /= None
           /\ data[_bucket_key(_build_key(r.request, mw.policies[2]), mw.policies[2])] = None

\* C16: matches is false whenever methods is a list, empty or not, that lacks
\* the upper-cased method, and otherwise true exactly when path_pattern is found
\* in the path: checked on every policy dispatch evaluates.
C16_MatchesMethods ==
    \A t \in InHand :
        \A i \in 1..Len(mw.policies) :
            LET p == mw.policies[i]
                r == req[t].request
            IN (req[t].policy = 0 \/ i <= req[t].policy) =>
                 Matches(p, r.method, r.path) =
                    IF p.methods /= None /\ Upper(r.method) \notin Range(p.methods.v)
                    THEN FALSE
                    ELSE Search(p.path_pattern, r.path)

\* C17: a request whose path matches a skip pattern is forwarded with no policy
\* selected, no consume and the store unchanged.
C17_SkipBypasses ==
    [][\A t \in InHand :
         LET r == req[t]
         IN (\E i \in DOMAIN mw.skip_paths : Search(mw.skip_paths[i], r.request.path)) =>
              /\ r.stage \in {"ARRIVED", "FORWARDED"}
              /\ r.policy = 0 /\ r.consumes = 0 /\ pc[t] = "idle"
              /\ r.stage = "FORWARDED" => (r.downstream = 1 /\ r.response.status = 200)
              /\ data' = data /\ applied' = applied]_vars

\* C17 witness: a skipped request was forwarded although a policy matches it and
\* that policy's bucket would deny it
C17_Witness ==
    \E t \in InHand :
        LET r == req[t]
        IN /\ r.stage = "FORWARDED"
           /\ \E i \in DOMAIN mw.skip_paths : Search(mw.skip_paths[i], r.request.path)
           /\ \E i \in 1..Len(mw.policies) :
                LET p == mw.policies[i]
                    b == _bucket_key(_build_key(r.request, p), p)
                IN /\ Matches(p, r.request.method, r.request.path)
                   /\ ~Upd(data[b], p, p.cost, clock).decision.allowed

\* the stage of the request state machine a position of dispatch belongs to: the
\* consume call is made in KEY_DERIVED
Phase(stage) == IF stage = "CONSUMING" THEN "KEY_DERIVED" ELSE stage

\* the moves of the request state machine
StageMoves ==
    {<<"none", "ARRIVED">>, <<"ARRIVED", "FORWARDED">>, <<"ARRIVED", "POLICY_SELECTED">>,
     <<"POLICY_SELECTED", "KEY_DERIVED">>, <<"KEY_DERIVED", "DECIDED">>,
     <<"DECIDED", "FORWARDED">>, <<"DECIDED", "REJECTED">>,
     <<"FORWARDED", "none">>, <<"REJECTED", "none">>}

\* the steps a request may take, and what each one may touch
SingleShotStep ==
    /\ \A t \in Threads :
         LET r == req[t]
         IN /\ Phase(req'[t].stage) /= Phase(r.stage) =>
                 <<Phase(r.stage), Phase(req'[t].stage)>> \in StageMoves
            /\ (r.stage = "ARRIVED" /\ req'[t].stage = "FORWARDED") => req'[t].policy = 0
            /\ r.stage /= "none" =>
                 /\ r.consumes <= 1
                 /\ r.consumes = 1 <=> r.stage \in {"CONSUMING", "DECIDED", "REJECTED"}
                                         \/ (r.stage = "FORWARDED" /\ r.policy /= 0)
                 /\ r.stage = "FORWARDED" => (r.downstream = 1 /\ r.response.status = 200)
                 /\ r.stage = "REJECTED" => (r.downstream = 0 /\ r.response.status = 429)
    /\ applied' /= applied =>
          \E t \in Threads :
             /\ req[t].stage = "CONSUMING" /\ req[t].consumes = 1
             /\ Len(applied') = Len(applied) + 1
    /\ served' /= served =>
          \E t \in Threads :
             /\ req[t].stage \in {"FORWARDED", "REJECTED"}
             /\ served' = Append(served, req[t])

\* C18: every request ends in exactly one of FORWARDED or REJECTED; one that is
\* neither bypassed nor unmatched goes through POLICY_SELECTED, KEY_DERIVED and
\* DECIDED in that order, and consume is called at most once per request.
C18_SingleShot ==
    /\ [][SingleShotStep]_vars
    /\ \A t \in Threads :
         (req[t].stage = "ARRIVED") ~> (req[t].stage \in {"FORWARDED", "REJECTED"})

\* C18 witness: one request was bypassed, one forwarded after an allowed consume
\* and one rejected
C18_Witness ==
    \E i, j, n \in 1..Len(served) :
        /\ served[i].stage = "FORWARDED" /\ served[i].policy = 0
        /\ served[j].stage = "FORWARDED" /\ served[j].consumes = 1
        /\ served[n].stage = "REJECTED" /\ served[n].consumes = 1
        /\ Len(applied) = 2

\* the answered requests that consumed, in order: the i-th one made the i-th
\* store write
Consumed == SelectSeq(served, LAMBDA r : r.consumes = 1)

\* C19: a denied request is answered 429 with error rate_limited and a
\* Retry-After header and the downstream handler is never invoked; an allowed one
\* invokes it exactly once; with a token bucket of burst B and cost 1, one client
\* and no time advancing, the first B requests are forwarded and the next ones
\* rejected.
C19_DeniedIs429 ==
    /\ \A r \in Handled :
         r.result /= None =>
            /\ r.stage \in {"DECIDED", "FORWARDED", "REJECTED"}
            /\ r.stage = "REJECTED" <=> (r.response /= None /\ ~r.result.allowed)
            /\ r.stage = "FORWARDED" <=> (r.response /= None /\ r.result.allowed)
            /\ r.stage = "REJECTED" =>
                 /\ r.response.status = 429
                 /\ r.response.body.error = "rate_limited"
                 /\ r.response.headers.retry_after /= None
                 /\ r.downstream = 0
            /\ r.stage = "FORWARDED" => r.downstream = 1
            /\ r.stage = "DECIDED" => r.downstream = 0
    /\ \A n \in 1..Len(Consumed) :
         LET p == PolicyOf(Consumed[1])
         IN (/\ p.algorithm = "token_bucket" /\ p.cost = 1
             /\ \A i \in 1..n :
                  /\ PolicyOf(Consumed[i]) = p
                  /\ Consumed[i].key = Consumed[1].key
                  /\ applied[i].now = applied[1].now)
            => Consumed[n].stage = IF n <= p.burst THEN "FORWARDED" ELSE "REJECTED"

\* C19 witness: with no time advancing, burst requests of one client were
\* forwarded and the next one rejected with 429
C19_Witness ==
    /\ Len(Consumed) = 3
    /\ PolicyOf(Consumed[1]) = M1
    /\ \A i \in 1..3 : applied[i].now = 0 /\ applied[i].key = <<"ip", ":", "c1">>
    /\ Consumed[1].stage = "FORWARDED" /\ Consumed[2].stage = "FORWARDED"
    /\ Consumed[3].stage = "REJECTED" /\ Consumed[3].response.status = 429
    /\ Consumed[3].downstream = 0

\* C20 as stated: every 429 carries X-RateLimit-Remaining 0, whatever the policy
\* cost and the bucket state.
C20_RejectedRemainingZero ==
    \A r \in Handled :
        r.stage = "REJECTED" => r.response.headers.remaining = Some(<<"0">>)

\* C20, amended: every 429 carries as X-RateLimit-Remaining the whole tokens left,
\* str(max(0, int(result.remaining))), a number below the policy cost: 0 when the
\* cost is 1.
C20_RejectedRemaining ==
    \A r \in Handled :
        r.stage = "REJECTED" =>
            LET p == PolicyOf(r)
                left == r.result.remaining \div Den(p)
            IN /\ r.response.headers.remaining = Some(Str(left))
               /\ 0 <= left /\ left < p.cost
               /\ p.cost = 1 => r.response.headers.remaining = Some(<<"0">>)

\* C20 witness: a policy of cost 2 rejected one request with a whole token left
\* and another one with nothing left
C20_Witness ==
    /\ \E r \in Handled :
         /\ r.stage = "REJECTED" /\ PolicyOf(r).cost = 2
         /\ r.response.headers.remaining = Some(<<"1">>)
    /\ \E r \in Handled :
         /\ r.stage = "REJECTED" /\ PolicyOf(r).cost = 2
         /\ r.result.remaining = 0
         /\ r.response.headers.remaining = Some(<<"0">>)

\* C21: with a valid policy, consume always returns a ConsumeResult and never
\* raises, whatever consume and reset left in the bucket; a denial is the result
\* allowed = false with a retry_after.
C21_ConsumeNeverRaises ==
    /\ \A t \in Threads :
         /\ (call[t].op = "consume" /\ call[t].policy \in Policies) => pc[t] /= "raise"
         /\ "type" \in DOMAIN result[t] =>
              /\ result[t].type /= "Error"
              /\ result[t].type = "ConsumeResult" =>
                   /\ result[t].allowed \in BOOLEAN
                   /\ ~result[t].allowed => result[t].retry_after /= None
    /\ \A p \in Policies, k \in Keys : ~UpdRaises(data[_bucket_key(k, p)], p)

\* C21 witness: a consume that found the empty dict left by reset returned a
\* denial as a ConsumeResult
C21_Witness ==
    \E t \in Threads :
        /\ "type" \in DOMAIN result[t] /\ result[t].type = "ConsumeResult"
        /\ ~result[t].allowed /\ result[t].retry_after /= None
        /\ \E i \in 2..Len(applied) :
             /\ applied[i - 1].op = "reset" /\ applied[i].op = "consume"
             /\ ~applied[i].decision.allowed

\* a call of consume with an algorithm the service does not know
Unsupported(c) ==
    c.op = "consume" /\ c.policy.algorithm \notin {"token_bucket", "leaky_bucket"}

\* C22: consume with an algorithm other than token_bucket and leaky_bucket ends
\* at once in a ValueError: it takes no lock, returns no ConsumeResult, and the
\* store is as it was.
C22_UnsupportedFailsFast ==
    [][\A t \in Threads :
         /\ Unsupported(call'[t]) => (pc'[t] = "raise" /\ data' = data)
         /\ Unsupported(call[t]) =>
              /\ pc[t] = "raise" /\ lock /= [owner |-> t]
              /\ data' = data /\ applied' = applied
              /\ pc'[t] /= pc[t] =>
                   /\ pc'[t] = "idle"
                   /\ result'[t] = [type |-> "Error", error |-> "ValueError"]]_vars

\* C22 witness: a consume with an unsupported algorithm is about to fail while
\* the store holds a bucket another policy has charged
C22_Witness ==
    \E t \in Threads :
        /\ Unsupported(call[t]) /\ pc[t] = "raise"
        /\ \E b \in BucketKeys : ~Falsy(data[b])

\* the requests whose key has been derived
Keyed == {r \in Handled : r.key /= None}

\* the address, user or tenant a request is partitioned by, with the default
\* that stands for an absent one
Addr(q) == IF q.client = None THEN <<"unknown">> ELSE q.client.v
UserId(q) == IF q.user = None THEN <<"anonymous">> ELSE q.user.v
TenantId(q) == IF q.tenant = None THEN <<"default">> ELSE q.tenant.v

\* C23: scope global gives every request the key global:*; ip, user and tenant
\* give ip:<addr>, user:<id>, tenant:<id> with the defaults unknown, anonymous and
\* default, so two requests share a bucket exactly when their address, user or
\* tenant is the same; the bucket consume works on is the one of that key.
C23_KeyByScope ==
    /\ \A r \in Keyed :
         LET sc == PolicyOf(r).scope
             q == r.request
         IN /\ sc = "global" => r.key.v = <<"global", ":", "*">>
            /\ sc = "ip" => r.key.v = <<"ip", ":">> \o Addr(q)
            /\ sc = "user" => r.key.v = <<"user", ":">> \o UserId(q)
            /\ sc = "tenant" => r.key.v = <<"tenant", ":">> \o TenantId(q)
    /\ \A r1 \in Keyed, r2 \in Keyed :
         LET sc == PolicyOf(r1).scope
             same == _bucket_key(r1.key.v, PolicyOf(r1)) = _bucket_key(r2.key.v, PolicyOf(r2))
         IN /\ sc = "global" => same
            /\ sc = "ip" => (same <=> Addr(r1.request) = Addr(r2.request))
            /\ sc = "user" => (same <=> UserId(r1.request) = UserId(r2.request))
            /\ sc = "tenant" => (same <=> TenantId(r1.request) = TenantId(r2.request))
    /\ \A i \in 1..Len(Consumed) :
         applied[i].bucket = _bucket_key(Consumed[i].key.v, PolicyOf(Consumed[i]))

\* C23 witness: under a user-scoped policy two requests from different addresses
\* with the same user drew from one bucket until it denied
C23_Witness ==
    \E i, j \in 1..Len(Consumed) :
        /\ PolicyOf(Consumed[i]).scope = "user"
        /\ Consumed[i].request.client /= Consumed[j].request.client
        /\ Consumed[i].key = Consumed[j].key
        /\ Consumed[j].stage = "REJECTED"

\* C24 as stated: scope custom gives each request the key of the ip derivation,
\* ip:<addr> or ip:unknown.
C24_CustomKeyIsIpKey ==
    \A r \in Keyed :
        PolicyOf(r).scope = "custom" => r.key.v = <<"ip", ":">> \o Addr(r.request)

\* the consumes applied to buckets of one algorithm that found a stored state
StoredConsumes(algorithm) ==
    {i \in 1..Len(applied) :
        /\ applied[i].op = "consume" /\ applied[i].policy.algorithm = algorithm
        /\ ~Falsy(applied[i].pre)}

\* tokens + max(0, now - last) * rate / period, capped at burst; amounts in units
\* of 1 / (TicksPerSec * period) token, times in ticks
Refilled(e) ==
    LET elapsed == IF e.now >= e.pre.last_refill_ts THEN e.now - e.pre.last_refill_ts ELSE 0
        sum == e.pre.tokens + elapsed * e.policy.rate
        cap == e.policy.burst * TicksPerSec * e.policy.period
    IN IF sum <= cap THEN sum ELSE cap

\* level - max(0, now - last) * rate / period, not below 0; same units
Drained(e) ==
    LET elapsed == IF e.now >= e.pre.last_refill_ts THEN e.now - e.pre.last_refill_ts ELSE 0
        diff == e.pre.level - elapsed * e.policy.rate
    IN IF diff >= 0 THEN diff ELSE 0

\* the cost of a consume in units
CostUnits(e) == e.cost * TicksPerSec * e.policy.period

C26_DeniedPersistsRefill ==
    /\ \A i \in StoredConsumes("token_bucket") :
         LET e == applied[i]
         IN ~e.decision.allowed =>
              /\ e.post = [tokens |-> Refilled(e), last_refill_ts |-> e.now]
              /\ e.post.tokens >= e.pre.tokens
    /\ \A i \in StoredConsumes("leaky_bucket") :
         LET e == applied[i]
         IN ~e.decision.allowed =>
              /\ e.post = [level |-> Drained(e), last_refill_ts |-> e.now]
              /\ e.post.level <= e.pre.level
    /\ \A i \in 1..Len(applied) :
         (applied[i].op = "consume" /\ Falsy(applied[i].pre) /\ ~applied[i].decision.allowed) =>
            applied[i].post =
               IF applied[i].policy.algorithm = "token_bucket"
               THEN [tokens |-> applied[i].policy.burst * Den(applied[i].policy),
                     last_refill_ts |-> applied[i].now]
               ELSE [level |-> 0, last_refill_ts |-> applied[i].now]

\* C26 witness: two denied consumes in a row, the second one storing more tokens
\* than the first and its own clock reading
C26_Witness ==
    \E i \in StoredConsumes("token_bucket") :
        /\ i > 1 /\ applied[i - 1].op = "consume"
        /\ ~applied[i - 1].decision.allowed /\ ~applied[i].decision.allowed
        /\ applied[i].post.tokens > applied[i].pre.tokens
        /\ applied[i].post.last_refill_ts > applied[i].pre.last_refill_ts

FirstConsume(p, c, n) ==
    LET full == p.burst * TicksPerSec * p.period
        cu == c * TicksPerSec * p.period
    IN IF p.algorithm = "token_bucket"
       THEN [allowed |-> full >= cu,
             post |-> [tokens |-> IF full >= cu THEN full - cu ELSE full, last_refill_ts |-> n]]
       ELSE [allowed |-> cu <= full,
             post |-> [level |-> IF cu <= full THEN cu ELSE 0, last_refill_ts |-> n]]

\* what a step may do to the entries of the store
LazyEntriesStep ==
    /\ \A b \in BucketKeys :
         /\ EntriesOf(b) = << >> => data[b] = None
         /\ data[b] /= None => data'[b] /= None
         /\ data'[b] /= data[b] =>
              /\ Len(applied') = Len(applied) + 1
              /\ applied'[Len(applied')].bucket = b
              /\ Falsy(data'[b]) => applied'[Len(applied')].op = "reset"
    /\ clock' /= clock => data' = data
    /\ \A t \in Threads :
         (call[t].op = "snapshot" /\ pc[t] = "ret" /\ pc'[t] = "idle"
            /\ EntriesOf(_bucket_key(call[t].key, call[t].policy)) = << >>) =>
              /\ result'[t].snapshot.last_refill_ts = None
              /\ IF call[t].policy.algorithm = "token_bucket"
                 THEN result'[t].snapshot.tokens = None
                 ELSE result'[t].snapshot.level = None
              /\ data[_bucket_key(call[t].key, call[t].policy)] = None
    /\ \A k \in Keys, p \in Policies :
         LET L == EntriesOf(_bucket_key(k, p))
         IN (Len(L) >= 1 /\ L[1].op = "consume") =>
              /\ L[1].pre = None
              /\ L[1].post = FirstConsume(p, L[1].cost, L[1].now).post
              /\ L[1].decision.allowed = FirstConsume(p, L[1].cost, L[1].now).allowed

\* C28: a bucket has no entry until its first consume or reset: a snapshot of a
\* never-used key returns null tokens/level and creates nothing, the first consume
\* starts from tokens = burst or level = 0 with last_refill_ts = now, and an entry
\* is never removed, and re-initialised only by reset, not by time passing.
C28_LazyEntries == [][LazyEntriesStep]_vars

\* C28 witness: time has passed, a snapshot of the never-used key has returned
\* null fields, and the first consume has just created the entry
C28_Witness ==
    \E t \in Threads :
        /\ "type" \in DOMAIN result[t] /\ result[t].type = "QuotaSnapshot"
        /\ result[t].snapshot.last_refill_ts = None
        /\ call[t].op = "consume" /\ pc[t] = "ret"
        /\ Len(applied) = 1 /\ applied[1].now > 0
        /\ data[applied[1].bucket] = applied[1].post

\* C29: the HTTP calls of the router share the bucket state: a consume request
\* finds what the request before it left in the bucket (so burst + 1 requests of
\* cost 1 with no time advancing end in a denial), a quota request returns what
\* the last consume stored, and a reset clears the bucket later requests use.
C29_HttpStateShared ==
    /\ \A k \in Keys, p \in Policies :
         LET L == EntriesOf(_bucket_key(k, p))
         IN /\ \A i \in 1..Len(L) : L[i].op = "consume" => L[i].pre = Before(L, i)
            /\ (/\ Len(L) = p.burst + 1
                /\ \A i \in 1..Len(L) :
                     L[i].op = "consume" /\ L[i].cost = 1 /\ L[i].now = L[1].now)
               => ~L[Len(L)].decision.allowed
    /\ \A t \in Threads :
         (call[t].op = "snapshot" /\ pc[t] = "ret") =>
            LET L == EntriesOf(_bucket_key(call[t].key, call[t].policy))
            IN current[t] = IF Len(L) = 0 THEN None ELSE L[Len(L)].post

\* the cost, in units, of the allowed consumes among the first n writes of L whose
\* clock reading lies in t0..t1
RECURSIVE AllowedCostIn(_, _, _, _)
AllowedCostIn(L, n, t0, t1) ==
    IF n = 0 THEN 0
    ELSE AllowedCostIn(L, n - 1, t0, t1)
           + (IF /\ L[n].op = "consume" /\ L[n].decision.allowed
                 /\ t0 <= L[n].now /\ L[n].now <= t1
              THEN CostUnits(L[n]) ELSE 0)

\* C30: on a token bucket that is not reset, the cost of the consumes allowed with
\* clock readings from t0 to t1 is at most burst + (t1 - t0) * rate / period, under
\* every interleaving.
C30_TokenRateBound ==
    \A k \in Keys, p \in Policies :
        LET L == EntriesOf(_bucket_key(k, p))
        IN (p.algorithm = "token_bucket" /\ \A i \in 1..Len(L) : L[i].op = "consume") =>
             \A t0 \in 0..MaxClock, t1 \in 0..MaxClock :
                 t0 <= t1 =>
                    AllowedCostIn(L, Len(L), t0, t1)
                       <= p.burst * TicksPerSec * p.period + (t1 - t0) * p.rate

\* C31: with the monotonic clock, the last_refill_ts stored for a (key, policy)
\* never decreases between resets, under every interleaving of concurrent consume
\* calls: each consume applied after another one since the last reset stores a
\* last_refill_ts that is at least the one it found.
C31_RefillTsMonotone ==
    \A k \in Keys, p \in Policies :
        LET S == SinceReset(_bucket_key(k, p))
        IN \A i \in 2..Len(S) : S[i].post.last_refill_ts >= S[i - 1].post.last_refill_ts

\* the policy with the same name, rate, period and burst and the other algorithm
Twin(p) ==
    [p EXCEPT !.algorithm = IF @ = "token_bucket" THEN "leaky_bucket" ELSE "token_bucket"]

\* a token-bucket policy whose rate per second, 2/3, is no binary fraction
PFrac == [name |-> <<"pf">>, algorithm |-> "token_bucket", rate |-> 2, period |-> 3, burst |-> 2]
FloatPolicies == {P1, PFrac}

\* one caller, a clock it controls, and for a policy the two buckets of the policy
\* and of its twin, kept as floats
InitFloat ==
    /\ clock = 0
    /\ data = [b \in {_bucket_key(k, q) : k \in Keys,
                                          q \in FloatPolicies \cup {Twin(p) : p \in FloatPolicies}}
                 |-> None]
    /\ lock = None
    /\ pc = [t \in Threads |-> "idle"]
    /\ call = [t \in Threads |-> NoCall]
    /\ now = [t \in Threads |-> 0]
    /\ current = [t \in Threads |-> None]
    /\ decision = [t \in Threads |-> EmptyDict]
    /\ result = [t \in Threads |-> None]
    /\ applied = << >>
    /\ req = [t \in Threads |-> NoReq]
    /\ served = << >>
    /\ budget = MaxPairCalls
    /\ env \in [callers : {{"t1"}}, targets : {{<<GlobalKey, p>>} : p \in FloatPolicies},
                costs : {{1}, {2}}, requests : {{}}]
    /\ mw = NoMw

\* consume(key, policy, cost) and consume(key, twin, cost) run one after the other
\* at one reading of the clock
ConsumeTwins(key, policy, cost) ==
    /\ budget > 0
    /\ <<key, policy>> \in env.targets /\ cost \in env.costs
    /\ \E t \in {TimeFloat(clock)} :
        \E ut \in {UpdFloat(data[_bucket_key(key, policy)], policy, cost, t)},
           ul \in {UpdFloat(data[_bucket_key(key, Twin(policy))], Twin(policy), cost, t)} :
            /\ data' = [data EXCEPT ![_bucket_key(key, policy)] = ut.new_state,
                                    ![_bucket_key(key, Twin(policy))] = ul.new_state]
            /\ applied' = Append(applied,
                   [op |-> "consume", key |-> key, policy |-> policy, cost |-> cost,
                    now |-> clock, token |-> ut, leaky |-> ul])
    /\ budget' = budget - 1
    /\ UNCHANGED <<clock, lock, pc, call, now, current, decision, result, env, mw, req, served>>

\* reset(key, policy) and reset(key, twin)
ResetTwins(key, policy) ==
    /\ budget > 0
    /\ <<key, policy>> \in env.targets
    /\ data' = [data EXCEPT ![_bucket_key(key, policy)] = EmptyDict,
                            ![_bucket_key(key, Twin(policy))] = EmptyDict]
    /\ applied' = Append(applied, [op |-> "reset", key |-> key, policy |-> policy])
    /\ budget' = budget - 1
    /\ UNCHANGED <<clock, lock, pc, call, now, current, decision, result, env, mw, req, served>>

NextFloat ==
    \/ Tick
    \/ \E k \in Keys, p \in FloatPolicies, c \in Costs : ConsumeTwins(k, p, c)
    \/ \E k \in Keys, p \in FloatPolicies : ResetTwins(k, p)

\* the two algorithms given the same calls, in the float arithmetic of the code
SpecFloat == InitFloat /\ [][NextFloat]_vars

\* C32: the two algorithms are observationally equivalent: given the same rate,
\* period and burst and the same sequence of consume calls (clock reading, cost) and
\* resets, the token bucket and the leaky bucket return the same allowed, remaining
\* and retry_after at every step, and their stored states are related by
\* level = burst - tokens.
C32_AlgorithmsEquivalent ==
    \A i \in 1..Len(applied) :
        LET e == applied[i]
        IN e.op = "consume" =>
             /\ e.token.decision = e.leaky.decision
             /\ e.leaky.new_state.level = FSub(FInt(e.policy.burst), e.token.new_state.tokens)

\* C33: every denied consume reports a whole retry_after >= 1, for both algorithms:
\* a denied leaky-bucket consume found the drained level above burst - cost, so the
\* branch that returns retry_after = 0 is never taken; consequently a 429 of the
\* middleware carries that same value as Retry-After header, as body retry_after
\* and as X-RateLimit-Reset header, never the fallbacks 0 and policy.period.
C33_RetryAfterAtLeastOne ==
    /\ \A i \in 1..Len(applied) :
         LET e == applied[i]
         IN (e.op = "consume" /\ ~e.decision.allowed) =>
              /\ e.decision.retry_after /= None
              /\ e.decision.retry_after.den = 1 /\ e.decision.retry_after.num >= 1
              /\ e.policy.algorithm = "leaky_bucket" =>
                    e.post.level > Float(e.policy, e.policy.burst) - Float(e.policy, e.cost)
    /\ \A r \in Handled :
         r.stage = "REJECTED" =>
            LET n == r.result.retry_after.num
            IN /\ r.result.retry_after.den = 1 /\ n >= 1
               /\ r.response.headers.retry_after = Some(Str(n))
               /\ r.response.body.retry_after = n
               /\ r.response.headers.reset = Some(Str(n))

\* C33 witness: a leaky-bucket policy rejected a request after a partial drain, and
\* the 429 carries retry_after 1 in both headers, which is not the period of the policy
C33_Witness ==
    \E r \in Handled :
        /\ r.stage = "REJECTED"
        /\ PolicyOf(r).algorithm = "leaky_bucket"
        /\ r.response.headers.retry_after = Some(<<"1">>)
        /\ r.response.headers.reset = Some(<<"1">>)
        /\ PolicyOf(r).period /= 1
        /\ \E i \in 2..Len(applied) :
             /\ ~applied[i].decision.allowed
             /\ applied[i].pre.level > applied[i].post.level

\* one caller working with the policy named "p1:k" on key "k" and with the policy
\* named "p1" on key "k:k", a partition key that contains the separator
ClashTargets == {<<<<"k">>, P6>>, <<<<"k", ":", "k">>, P1>>}

InitClash ==
    /\ clock = 0
    /\ data = [b \in {_bucket_key(tg[1], tg[2]) : tg \in ClashTargets} |-> None]
    /\ lock = None
    /\ pc = [t \in Threads |-> "idle"]
    /\ call = [t \in Threads |-> NoCall]
    /\ now = [t \in Threads |-> 0]
    /\ current = [t \in Threads |-> None]
    /\ decision = [t \in Threads |-> EmptyDict]
    /\ result = [t \in Threads |-> None]
    /\ applied = << >>
    /\ req = [t \in Threads |-> NoReq]
    /\ served = << >>
    /\ budget = MaxPairCalls
    /\ env \in [callers : {{"t1"}}, targets : {ClashTargets}, costs : {{1}, {2}},
                requests : {{}}]
    /\ mw = NoMw

NextClash ==
    \/ Tick
    \/ \E t \in Threads, tg \in ClashTargets, c \in Costs : CallConsume(t, tg[1], tg[2], c)
    \/ \E t \in Threads, tg \in ClashTargets : CallReset(t, tg[1], tg[2])
    \/ \E t \in Threads, tg \in ClashTargets : CallSnapshot(t, tg[1], tg[2])
    \/ \E t \in Threads : ReadNow(t)
    \/ \E t \in Threads : Acquire(t)
    \/ \E t \in Threads : UpdateRead(t)
    \/ \E t \in Threads : UpdateWrite(t)
    \/ \E t \in Threads : StoreSet(t)
    \/ \E t \in Threads : StoreGet(t)
    \/ \E t \in Threads : Return(t)

SpecClash == InitClash /\ [][NextClash]_vars

\* C34: the storage key is injective over (algorithm, policy name, partition key),
\* also when a name or a partition key contains ":": two operations whose triples
\* differ in some component are never applied to the same bucket.
C34_StorageKeyInjective ==
    \A i, j \in 1..Len(applied) :
        (\/ applied[i].policy.algorithm /= applied[j].policy.algorithm
         \/ applied[i].policy.name /= applied[j].policy.name
         \/ applied[i].key /= applied[j].key)
        => applied[i].bucket /= applied[j].bucket

\* the operations applied before the i-th one for the same partition key and policy
EarlierSame(i) ==
    {j \in 1..(i - 1) : applied[j].key = applied[i].key /\ applied[j].policy = applied[i].policy}

\* C35: consume and reset change only the store entry of their own (key, policy):
\* every consume finds the state that the last operation for the same key and policy
\* left (nothing where there was none), whatever was done meanwhile for other keys
\* and policies, and a consume that found nothing stored is denied only when its
\* cost exceeds the burst.
C35_FrameEffect ==
    \A i \in 1..Len(applied) :
        LET e == applied[i]
            S == EarlierSame(i)
        IN e.op = "consume" =>
             /\ e.pre = IF S = {} THEN None
                        ELSE applied[CHOOSE j \in S : \A l \in S : l <= j].post
             /\ (S = {} /\ ~e.decision.allowed) => e.cost > e.policy.burst

\* two threads calling consume (of cost 1), snapshot and reset on one bucket
InitFair ==
    /\ InitState
    /\ budget = MaxCalls
    /\ env \in [callers : {Threads}, targets : {{<<GlobalKey, P1>>}, {<<GlobalKey, P2>>}},
                costs : {{1}}, requests : {{}}]
    /\ mw = NoMw

\* the steps a thread takes inside a call it has entered
ServiceStep(t) ==
    \/ ReadNow(t) \/ Acquire(t) \/ UpdateRead(t) \/ UpdateWrite(t)
    \/ StoreSet(t) \/ StoreGet(t) \/ Return(t)

\* every thread that can take a step of its call eventually takes one; a thread
\* waiting for the lock is not promised to win it while others keep taking it
FairSpec == InitFair /\ [][Next]_vars /\ \A t \in Threads : WF_vars(ServiceStep(t))

\* the lock is owned only from the entry of one get, set or update to its return
LockHeldInStore ==
    /\ \A t \in Threads : lock = [owner |-> t] <=> pc[t] \in {"locked", "fn"}
    /\ lock = None <=> \A t \in Threads : pc[t] \notin {"locked", "fn"}

\* C36: under fair scheduling every concurrent consume, snapshot and reset call
\* eventually returns, and the lock is held only inside one get, set or update
\* of the store, never by a thread that waits or has returned.
C36_CallsReturn ==
    /\ [](LockHeldInStore)
    /\ \A t \in Threads : (pc[t] /= "idle") ~> (pc[t] = "idle")

\* C36 witness: a thread waits for the lock while the other one is inside update
C36_Witness ==
    \E t, u \in Threads :
        /\ pc[t] = "acquire" /\ pc[u] = "fn" /\ lock = [owner |-> u]
        /\ call[t].op \in {"snapshot", "reset"}

\* MwForwardFails that gives the units of the request back to the bucket
MwForwardFailsRefund(t) ==
    /\ req[t].stage = "DECIDED"
    /\ req[t].result.allowed
    /\ LET policy == mw.policies[req[t].policy]
           b == _bucket_key(req[t].key.v, policy)
       IN data' = [data EXCEPT ![b] =
                     IF policy.algorithm = "token_bucket"
                     THEN [@ EXCEPT !.tokens = @ + Float(policy, policy.cost)]
                     ELSE [@ EXCEPT !.level = @ - Float(policy, policy.cost)]]
    /\ served' = Append(served, [req[t] EXCEPT !.stage = "FAILED", !.downstream = @ + 1])
    /\ req' = [req EXCEPT ![t] = NoReq]
    /\ result' = [result EXCEPT ![t] = None]
    /\ UNCHANGED <<clock, lock, pc, call, now, current, decision, applied, budget, env, mw>>

\* allowed: call_next raises, and the exception leaves dispatch, which catches nothing
MwForwardFails(t) ==
    /\ req[t].stage = "DECIDED"
    /\ req[t].result.allowed
    /\ served' = Append(served, [req[t] EXCEPT !.stage = "FAILED", !.downstream = @ + 1])
    /\ req' = [req EXCEPT ![t] = NoReq]
    /\ result' = [result EXCEPT ![t] = None]
    /\ UNCHANGED <<clock, data, lock, pc, call, now, current, decision, applied, budget, env, mw>>

NextMwFail == NextMw \/ \E t \in Threads : MwForwardFails(t)

\* the middleware in front of a downstream handler that may fail
SpecMwFail == InitMw /\ [][NextMwFail]_vars

\* the requests answered so far for which consume was called, in order
Charged == SelectSeq(served, LAMBDA r : r.consumes > 0)

\* C37: the middleware charges before it forwards and never refunds: a request
\* reaches the downstream handler only after its one consume was allowed; an allowed
\* consume stores the refilled bucket less the cost, a denied one the refilled
\* bucket with nothing deducted; and the stored state stays what the last consume
\* left, also when the downstream handler failed.
C37_ChargeNoRefund ==
    /\ \A r \in Handled :
          (r.downstream > 0 /\ r.policy /= 0) => (r.consumes = 1 /\ r.result.allowed)
    /\ \A r \in Handled : r.stage = "REJECTED" => (r.consumes = 1 /\ r.downstream = 0)
    /\ Len(Charged) <= Len(applied)
    /\ \A i \in 1..Len(Charged) :
          /\ applied[i].decision.allowed = Charged[i].result.allowed
          /\ applied[i].key = Charged[i].key.v
    /\ \A i \in 1..Len(applied) :
          LET e == applied[i]
              free == Upd(e.pre, e.policy, 0, e.now).new_state
              units == IF e.decision.allowed THEN Float(e.policy, e.cost) ELSE 0
          IN /\ e.post.last_refill_ts = free.last_refill_ts
             /\ e.policy.algorithm = "token_bucket" => e.post.tokens = free.tokens - units
             /\ e.policy.algorithm = "leaky_bucket" => e.post.level = free.level + units
    /\ \A i \in 1..Len(applied) :
          (\A j \in (i + 1)..Len(applied) : applied[j].bucket /= applied[i].bucket)
          => data[applied[i].bucket] = applied[i].post

\* C37 witness: the downstream handler failed for an allowed request, and a later
\* request for the same bucket was rejected
C37_Witness ==
    \E i, j \in 1..Len(Charged) :
        /\ i < j
        /\ Charged[i].stage = "FAILED" /\ Charged[j].stage = "REJECTED"
        /\ applied[i].bucket = applied[j].bucket
        /\ \A l \in 1..Len(Charged) : Charged[l].stage /= "FORWARDED"

====
